---- MODULE Spec2Model ----
(***************************************************************************)
(* A model of the quest-metadata catalog (AppManager / LocalApp), of the   *)
(* phase 2 scrape (Updater.scrape_apps), of the change tracking of a       *)
(* scraped Item (Item.set_update_details) and of the consolidation of      *)
(* several detail records (MetaParser.parse / Parser.parse).               *)
(*                                                                         *)
(* Python's None is modelled per type: an optional string is the string    *)
(* "None"; an optional list is <<>> for None and <<l>> for the list l.     *)
(***************************************************************************)
EXTENDS Integers, Sequences, FiniteSets, TLC

VARIABLES
    apps,       \* AppManager._apps: package name -> LocalApp
    last,       \* history: the last catalog operation, its arguments, the catalog before it
    ops,        \* history: number of catalog operations executed
    spc,        \* Updater.scrape_apps: the statement the orchestrator is at
    groups,     \* scrape_apps: apps, the result of get_all_by_id (id -> list of packages)
    task,       \* scrape_apps: per identity, the position and result of its _scrape_app task
    apps0,      \* history: the catalog when scrape_apps started
    disk,       \* the catalog document last written by AppManager.save
    stats,      \* Item.global_average_rating and Item.vote_confidence
    docs,       \* the per-identity JSON documents written by scrape_apps
    tracked,    \* the Item that set_update_details is called on
    prev_app,   \* set_update_details: the previous run's record, or None
    new_date,   \* set_update_details: the run's time
    tpc,        \* set_update_details: "call" before the call, "done" after it
    responses,  \* parse: the detail records handed over, the primary first
    consol,     \* parse: the consolidated record returned, or None
    base_idx,   \* parse: the position in responses of the record used as base
    merged,     \* parse: the ids of the records consolidated into the base
    mpc,        \* parse: "call", then "meta" (MetaParser) or "parser" (Parser)
    pvalues,    \* percentile: the list of values
    pct,        \* percentile: the percentage asked for
    presult,    \* percentile: the value returned, in hundredths
    ppc,        \* percentile: "call" before the call, "done" after it
    upc,        \* update_local_apps: the step about to run, "saved" or "crashed" at the end
    sources,    \* update_local_apps: what the source adapters return in this run
    parsed_apps,    \* Updater._parsed_apps
    pending,    \* update_local_apps: the _parse_result tasks of the gather under way
    file,       \* the catalog file when AppManager is constructed
    loader,     \* the AppManager class constructed: app_manager.py or manager.py
    lpc,        \* AppManager.__init__: "construct", then "loaded" or "raised"
    ulist,      \* a LowerCaseUniqueList (its data)
    lcall,      \* history: the last list operation and its argument
    upstream,   \* two runs of update_local_apps: what the services answer for each id, in both runs
    run,        \* two runs: the number of the run under way, 0 when idle
    first,      \* two runs: each package's primary id after the first run
    clock,      \* requests: the event loop's time, in ticks
    calls       \* requests: the calls of Wrapper methods that reach the shared HttpClient

catalogVars == <<last, ops>>
scrapeVars == <<spc, groups, task, apps0, disk, stats, docs>>
trackVars == <<tracked, prev_app, new_date, tpc>>
mergeVars == <<responses, consol, base_idx, merged, mpc>>
pctVars == <<pvalues, pct, presult, ppc>>
updVars == <<upc, sources, parsed_apps, pending>>
loadVars == <<file, loader, lpc>>
ulVars == <<ulist, lcall>>
stableVars == <<upstream, run, first>>
rateVars == <<clock, calls>>
vars == <<apps, catalogVars, scrapeVars, trackVars, mergeVars, pctVars, updVars, loadVars, ulVars, stableVars, rateVars>>

(***************************************************************************)
(* Bounds of the model.                                                    *)
(***************************************************************************)
MaxDate == 1        \* version timestamps range over 0..MaxDate
MaxVer == 1         \* version codes range over 0..MaxVer
MaxOps == 2         \* catalog operations per behaviour

Packages == {"p1", "p2"}
Ids == {"i1", "i2"}
Names == {"", "n1"}
None == "None"

Range(s) == {s[i] : i \in DOMAIN s}

RECURSIVE SeqMax(_)
SeqMax(s) ==
    IF Len(s) = 1 THEN Head(s)
    ELSE LET m == SeqMax(Tail(s)) IN IF Head(s) >= m THEN Head(s) ELSE m

(***************************************************************************)
(* Optional lists.                                                         *)
(***************************************************************************)
NoneList == <<>>
Some(l) == <<l>>
IsNone(o) == o = <<>>
Get(o) == o[1]

(***************************************************************************)
(* ParsedAppItem (data/model/parsed/app_item.py).                          *)
(* versions: None or a list of [created_date, code].                       *)
(***************************************************************************)
Version == [created_date : 0..MaxDate, code : 0..MaxVer]

VersionLists == {<<>>} \cup {<<v>> : v \in Version}

PackageLists ==
    {<<>>} \cup {<<p>> : p \in Packages}
           \cup {<<p, q>> : <<p, q>> \in {pq \in Packages \X Packages : pq[1] # pq[2]}}

\* cl_version is read only when there are no versions; the items with versions
\* are enumerated with cl_version 0
ParsedAppItem ==
    {item \in [id : Ids, name : Names, packages : PackageLists,
               versions : {NoneList} \cup {Some(l) : l \in VersionLists},
               cl_version : 0..MaxVer] :
        (~IsNone(item.versions) /\ Len(Get(item.versions)) > 0) => item.cl_version = 0}

\* ParsedAppItem.max_version_date
max_version_date(item) ==
    IF IsNone(item.versions) \/ Len(Get(item.versions)) = 0 THEN 0
    ELSE SeqMax([i \in DOMAIN Get(item.versions) |-> Get(item.versions)[i].created_date])

\* ParsedAppItem.max_version
max_version(item) ==
    IF IsNone(item.versions) \/ Len(Get(item.versions)) = 0 THEN item.cl_version
    ELSE SeqMax([i \in DOMAIN Get(item.versions) |-> Get(item.versions)[i].code])

(***************************************************************************)
(* AppChangeLog (data/model/oculus/app_changelog.py): a list of entries    *)
(* [code, change_log], change_log being None or a text.                    *)
(***************************************************************************)
AppChangeEntry == [code : 0..MaxVer, change_log : {None, "t"}]

AppChangeLog ==
    {<<>>} \cup {<<e>> : e \in AppChangeEntry}
           \cup {<<e, f>> : <<e, f>> \in
                    {ef \in AppChangeEntry \X AppChangeEntry : ef[1].code # ef[2].code}}

get_latest_version(log) ==
    IF Len(log) = 0 THEN 0
    ELSE SeqMax([i \in DOMAIN log |-> log[i].code])

get_valid_changes(log) ==
    IF Len(log) = 0 THEN <<>>
    ELSE SelectSeq(log, LAMBDA e : e.change_log # None)

(***************************************************************************)
(* LocalApp (data/model/local/apps.py).                                    *)
(***************************************************************************)
RookieReleases == {<<>>, <<"r1">>}

LocalAppUpdate ==
    [app_name : Names, has_metadata : BOOLEAN, is_available : BOOLEAN,
     is_free : BOOLEAN, is_demo_of : BOOLEAN]

LocalApp(id, app_name, date, version, releases) ==
    [id |-> id, app_name |-> app_name,
     max_version |-> version, max_version_date |-> date,
     change_log |-> NoneList,
     has_metadata |-> FALSE, is_available |-> FALSE,
     is_free |-> FALSE, is_demo_of |-> FALSE,
     rookie_releases |-> releases]

(***************************************************************************)
(* AppManager (data/local/app_manager.py).                                 *)
(***************************************************************************)
\* AppManager._create_new_local_app
create_new_local_app(item) ==
    LocalApp(item.id, item.name, max_version_date(item), max_version(item), <<>>)

\* update_app_details overwriting whatever the sighting's timestamp is
update_app_details_any_date(local_app, item) ==
    LET dated == [local_app EXCEPT !.max_version_date = max_version_date(item),
                                   !.max_version = max_version(item)]
    IN  IF local_app.id # item.id
        THEN [dated EXCEPT !.change_log = NoneList, !.id = item.id]
        ELSE dated

\* update_app_details keeping the changelog of the replaced identity
update_app_details_keep_log(local_app, item) ==
    IF local_app.id = None \/ max_version_date(item) >= local_app.max_version_date
    THEN [local_app EXCEPT !.max_version_date = max_version_date(item),
                           !.max_version = max_version(item),
                           !.id = item.id]
    ELSE local_app

\* AppManager._update_app_details
update_app_details(local_app, item) ==
    IF local_app.id = None \/ max_version_date(item) >= local_app.max_version_date
    THEN LET dated == [local_app EXCEPT !.max_version_date = max_version_date(item),
                                        !.max_version = max_version(item)]
         IN  IF local_app.id # item.id
             THEN [dated EXCEPT !.change_log = NoneList, !.id = item.id]
             ELSE dated
    ELSE local_app

\* AppManager._update_existing_local_app
update_existing_local_app(local_app, item) ==
    update_app_details(
        IF item.name # "" THEN [local_app EXCEPT !.app_name = item.name] ELSE local_app,
        item)

\* _add_or_update_local_app without the creation of new entries
update_known_local_app(a, package, item) ==
    IF package \in DOMAIN a
    THEN [a EXCEPT ![package] = update_existing_local_app(a[package], item)]
    ELSE a

\* AppManager._add_or_update_local_app
add_or_update_local_app(a, package, item) ==
    IF package \in DOMAIN a
    THEN [a EXCEPT ![package] = update_existing_local_app(a[package], item)]
    ELSE [p \in DOMAIN a \cup {package} |->
            IF p = package THEN create_new_local_app(item) ELSE a[p]]

\* AppManager.add: for package in parsed_item.packages
RECURSIVE add_packages(_, _, _)
add_packages(a, pkgs, item) ==
    IF pkgs = <<>> THEN a
    ELSE add_packages(add_or_update_local_app(a, Head(pkgs), item), Tail(pkgs), item)

add(a, item) == add_packages(a, item.packages, item)

\* AppManager.add_changelog: the catalog after the call
add_changelog(a, package, log) ==
    [a EXCEPT ![package].change_log = Some(get_valid_changes(log)),
              ![package].max_version = get_latest_version(log)]

\* add_changelog reporting a log whose latest version is the recorded one
add_changelog_updated_ge(a, package, log) ==
    get_latest_version(log) >= a[package].max_version

\* AppManager.add_changelog: the value returned
add_changelog_updated(a, package, log) ==
    get_latest_version(log) > a[package].max_version

\* add_rookie_releases writing a placeholder over whatever entry there is
add_rookie_releases_reset(a, package, releases) ==
    [p \in DOMAIN a \cup {package} |->
        IF p = package THEN LocalApp(None, "n1", 0, 0, releases) ELSE a[p]]

\* AppManager.add_rookie_releases (the app name of a placeholder is the
\* release feed's name of the game)
add_rookie_releases(a, package, releases) ==
    IF package \in DOMAIN a
    THEN [a EXCEPT ![package].rookie_releases = releases]
    ELSE [p \in DOMAIN a \cup {package} |->
            IF p = package THEN LocalApp(None, "n1", 0, 0, releases) ELSE a[p]]

\* update creating the entry of a package that is not in the catalog
update_or_create(a, package, upd) ==
    [p \in DOMAIN a \cup {package} |->
        LET old == IF p \in DOMAIN a THEN a[p] ELSE LocalApp(None, "", 0, 0, <<>>)
        IN  IF p # package THEN old
            ELSE [old EXCEPT !.is_free = upd.is_free,
                             !.is_available = upd.is_available,
                             !.is_demo_of = upd.is_demo_of,
                             !.has_metadata = upd.has_metadata,
                             !.app_name = IF upd.app_name # "" THEN upd.app_name ELSE @]]

\* AppManager.update
update(a, package, upd) ==
    IF package \in DOMAIN a
    THEN [a EXCEPT ![package] =
            [@ EXCEPT !.is_free = upd.is_free,
                      !.is_available = upd.is_available,
                      !.is_demo_of = upd.is_demo_of,
                      !.has_metadata = upd.has_metadata,
                      !.app_name = IF upd.app_name # "" THEN upd.app_name ELSE @]]
    ELSE a

(***************************************************************************)
(* The catalog as AppManager._load_from_file yields it: change_log and     *)
(* is_demo_of are excluded from the saved document, so they load as their  *)
(* defaults; a missing file yields the empty catalog.                      *)
(***************************************************************************)
LoadedApp ==
    {LocalApp(id, "n1", d, v, <<>>) : id \in Ids \cup {None}, d \in 0..MaxDate, v \in 0..MaxVer}

\* the catalogs the behaviours start from: at most one package on file
LoadedCatalogs ==
    UNION {[ps -> LoadedApp] : ps \in {qs \in SUBSET Packages : Cardinality(qs) <= 1}}

NoOp == [op |-> "none"]

CatalogIdle ==
    /\ last = NoOp
    /\ ops = 0

ScrapeIdle ==
    /\ spc = "idle"
    /\ groups = <<>>
    /\ task = <<>>
    /\ apps0 = <<>>
    /\ disk = NoneList
    /\ stats = NoneList
    /\ docs = <<>>

TrackIdle ==
    /\ tracked = NoneList
    /\ prev_app = NoneList
    /\ new_date = 0
    /\ tpc = "idle"

MergeIdle ==
    /\ responses = <<>>
    /\ consol = NoneList
    /\ base_idx = 0
    /\ merged = <<>>
    /\ mpc = "idle"

PctIdle ==
    /\ pvalues = <<>>
    /\ pct = 0
    /\ presult = 0
    /\ ppc = "idle"

UpdateIdle ==
    /\ upc = "idle"
    /\ sources = <<>>
    /\ parsed_apps = <<>>
    /\ pending = <<>>

LoadIdle ==
    /\ file = NoneList
    /\ loader = "none"
    /\ lpc = "idle"

ListIdle ==
    /\ ulist = <<>>
    /\ lcall = NoOp

StableIdle ==
    /\ upstream = <<>>
    /\ run = 0
    /\ first = <<>>

RateIdle ==
    /\ clock = 0
    /\ calls = <<>>

CatalogInit ==
    /\ apps \in LoadedCatalogs
    /\ CatalogIdle
    /\ RateIdle
    /\ StableIdle
    /\ ListIdle
    /\ LoadIdle
    /\ UpdateIdle
    /\ PctIdle
    /\ ScrapeIdle
    /\ TrackIdle
    /\ MergeIdle

Add(item) ==
    /\ ops < MaxOps
    /\ apps' = add(apps, item)
    /\ last' = [op |-> "add", item |-> item, pre |-> apps]
    /\ ops' = ops + 1
    /\ UNCHANGED <<pctVars, rateVars, stableVars, ulVars, loadVars, updVars, scrapeVars, trackVars, mergeVars>>

AddChangelog(package, log) ==
    /\ ops < MaxOps
    /\ package \in DOMAIN apps
    /\ apps' = add_changelog(apps, package, log)
    /\ last' = [op |-> "add_changelog", package |-> package, log |-> log,
                updated |-> add_changelog_updated(apps, package, log), pre |-> apps]
    /\ ops' = ops + 1
    /\ UNCHANGED <<pctVars, rateVars, stableVars, ulVars, loadVars, updVars, scrapeVars, trackVars, mergeVars>>

AddRookieReleases(package, releases) ==
    /\ ops < MaxOps
    /\ releases # <<>>
    /\ apps' = add_rookie_releases(apps, package, releases)
    /\ last' = [op |-> "add_rookie_releases", package |-> package,
                releases |-> releases, pre |-> apps]
    /\ ops' = ops + 1
    /\ UNCHANGED <<pctVars, rateVars, stableVars, ulVars, loadVars, updVars, scrapeVars, trackVars, mergeVars>>

Update(package, upd) ==
    /\ ops < MaxOps
    /\ apps' = update(apps, package, upd)
    /\ last' = [op |-> "update", package |-> package, upd |-> upd, pre |-> apps]
    /\ ops' = ops + 1
    /\ UNCHANGED <<pctVars, rateVars, stableVars, ulVars, loadVars, updVars, scrapeVars, trackVars, mergeVars>>

CatalogNext ==
    \/ \E item \in ParsedAppItem : Add(item)
    \/ \E p \in Packages, log \in AppChangeLog : AddChangelog(p, log)
    \/ \E p \in Packages, r \in RookieReleases : AddRookieReleases(p, r)
    \/ \E p \in Packages, upd \in LocalAppUpdate : Update(p, upd)

SpecCatalog == CatalogInit /\ [][CatalogNext]_vars

(***************************************************************************)
(* Properties of AppManager.add.                                           *)
(***************************************************************************)
\* the packages of the last add that were in the catalog before it
Resighted == IF last.op = "add" THEN Range(last.item.packages) \cap DOMAIN last.pre ELSE {}

SightingDate == max_version_date(last.item)

IdentityOf(app) == <<app.id, app.max_version_date, app.max_version>>

IdentityFromSighting ==
    <<last.item.id, max_version_date(last.item), max_version(last.item)>>

\* C2: on a package whose entry has a primaryId, a sighting with a strictly
\* greater timestamp overwrites primaryId, maxVersionTimestamp and
\* maxVersionCode with the sighting's values, and a sighting with a strictly
\* smaller timestamp leaves them and the changeLog unchanged.
C2_IdentityUpdate ==
    \A p \in Resighted :
        last.pre[p].id # None =>
            /\ SightingDate > last.pre[p].max_version_date =>
                    IdentityOf(apps[p]) = IdentityFromSighting
            /\ SightingDate < last.pre[p].max_version_date =>
                    /\ IdentityOf(apps[p]) = IdentityOf(last.pre[p])
                    /\ apps[p].change_log = last.pre[p].change_log

\* a newer sighting with another external id has replaced the primaryId
C2_Witness ==
    \E p \in Resighted :
        /\ last.pre[p].id \notin {None, last.item.id}
        /\ SightingDate > last.pre[p].max_version_date
        /\ apps[p].id = last.item.id

\* C3: add overwrites primaryId, maxVersionTimestamp and maxVersionCode of
\* an existing entry only if the sighting's timestamp is greater than the
\* stored one or the entry has no primaryId; a sighting with another external
\* id and an equal timestamp leaves primaryId and changeLog unchanged.
C3_OverwriteOnlyIfGreater ==
    \A p \in Resighted :
        /\ IdentityOf(apps[p]) # IdentityOf(last.pre[p]) =>
                (SightingDate > last.pre[p].max_version_date \/ last.pre[p].id = None)
        /\ ( /\ last.pre[p].id \notin {None, last.item.id}
             /\ SightingDate = last.pre[p].max_version_date ) =>
                /\ apps[p].id = last.pre[p].id
                /\ apps[p].change_log = last.pre[p].change_log

\* the condition under which add overwrites the identity fields
Overwrites(p) ==
    last.pre[p].id = None \/ SightingDate >= last.pre[p].max_version_date

\* C4: when add overwrites an existing entry's identity fields, the changeLog
\* is cleared if the sighting's external id differs from the stored primaryId
\* and is left as it was if the external id is the same.
C4_ChangelogInvalidation ==
    \A p \in Resighted :
        Overwrites(p) =>
            /\ last.item.id # last.pre[p].id => IsNone(apps[p].change_log)
            /\ last.item.id = last.pre[p].id =>
                    apps[p].change_log = last.pre[p].change_log

\* a stored changelog was cleared by a sighting with another external id, and
\* (for another behaviour) kept by one with the same id
C4_Witness ==
    \E p \in Resighted :
        /\ Overwrites(p)
        /\ ~IsNone(last.pre[p].change_log)
        /\ last.item.id # last.pre[p].id
        /\ IsNone(apps[p].change_log)

C4_WitnessSameId ==
    \E p \in Resighted :
        /\ Overwrites(p)
        /\ ~IsNone(last.pre[p].change_log)
        /\ last.item.id = last.pre[p].id
        /\ apps[p].change_log = last.pre[p].change_log

(***************************************************************************)
(* Properties of add_changelog, add_rookie_releases and update.            *)
(***************************************************************************)
\* the version codes of a log, and the entries of a log that have a text
CodesOf(log) == {log[k].code : k \in DOMAIN log}

WithText(log) == SelectSeq(log, LAMBDA e : e.change_log = "t")

\* C22: add_changelog returns true exactly when the greatest version code
\* of the log is greater than the max_version recorded for the package
\* before the call; it stores the log's entries that have a changelog text
\* as the package's change_log; a second call with the same log returns
\* false.
C22_AddChangelog ==
    last.op = "add_changelog" =>
        /\ last.updated = (\E c \in CodesOf(last.log) : c > last.pre[last.package].max_version)
        /\ apps[last.package].change_log = Some(WithText(last.log))
        /\ ~add_changelog_updated(apps, last.package, last.log)

\* a log of two entries, the first with the newer code and no text,
\* reported as an update
C22_Witness ==
    /\ last.op = "add_changelog"
    /\ Len(last.log) = 2
    /\ last.log[1].code > last.log[2].code
    /\ last.log[1].change_log = None
    /\ last.updated
    /\ Len(Get(apps[last.package].change_log)) = 1

\* C23: release-feed placeholder: add_rookie_releases on a package that is
\* not in the catalog creates an entry without id, with max_version_date 0
\* and max_version 0, holding the releases; on a package in the catalog it
\* replaces the release list only; a later add for a package whose entry
\* has no id sets the id to the sighting's, whatever the sighting's
\* timestamp.
C23_RookiePlaceholder ==
    /\ last.op = "add_rookie_releases" =>
        /\ \A p \in DOMAIN last.pre \ {last.package} : apps[p] = last.pre[p]
        /\ DOMAIN apps = DOMAIN last.pre \cup {last.package}
        /\ IF last.package \in DOMAIN last.pre
           THEN apps[last.package] =
                    [last.pre[last.package] EXCEPT !.rookie_releases = last.releases]
           ELSE /\ apps[last.package].id = None
                /\ apps[last.package].max_version_date = 0
                /\ apps[last.package].max_version = 0
                /\ IsNone(apps[last.package].change_log)
                /\ apps[last.package].rookie_releases = last.releases
    /\ last.op = "add" =>
        \A p \in Resighted : last.pre[p].id = None => apps[p].id = last.item.id

\* a placeholder made from the release feed, completed by a later sighting
C23_Witness ==
    /\ last.op = "add"
    /\ \E p \in Resighted :
        /\ last.pre[p].id = None
        /\ last.pre[p].rookie_releases # <<>>
        /\ apps[p].id = last.item.id
        /\ apps[p].rookie_releases = last.pre[p].rookie_releases

\* the fields of an entry that update does not write
Kept(app) ==
    <<app.id, app.max_version_date, app.max_version, app.change_log, app.rookie_releases>>

\* C24: update on a package in the catalog changes only that entry's
\* is_available, is_free, is_demo_of and has_metadata and, when the name
\* given is not empty, its app_name; id, version fields, change_log and
\* release list of the entry and every other entry stay as they were; on a
\* package that is not in the catalog it changes nothing and creates no
\* entry.
C24_UpdateFrame ==
    last.op = "update" =>
        /\ DOMAIN apps = DOMAIN last.pre
        /\ \A p \in DOMAIN apps \ {last.package} : apps[p] = last.pre[p]
        /\ last.package \in DOMAIN last.pre =>
            LET new == apps[last.package]
                old == last.pre[last.package]
            IN  /\ Kept(new) = Kept(old)
                /\ new.is_available = last.upd.is_available
                /\ new.is_free = last.upd.is_free
                /\ new.is_demo_of = last.upd.is_demo_of
                /\ new.has_metadata = last.upd.has_metadata
                /\ new.app_name =
                    IF last.upd.app_name = "" THEN old.app_name ELSE last.upd.app_name

\* an update with an empty name on an entry that has a changelog, and (for
\* another behaviour) an update of a package that is not in the catalog
C24_Witness ==
    /\ last.op = "update"
    /\ last.package \in DOMAIN last.pre
    /\ last.upd.app_name = ""
    /\ last.upd.is_free
    /\ ~IsNone(apps[last.package].change_log)
    /\ apps[last.package].app_name = "n1"

C24_WitnessAbsent ==
    /\ last.op = "update"
    /\ last.package \notin DOMAIN last.pre
    /\ DOMAIN last.pre # {}
    /\ apps = last.pre

\* C25: catalog entries are never deleted: no step of the catalog
\* operations (add, add_changelog, add_rookie_releases, update, save)
\* removes a package key, and after add every package the sighting names
\* is a key of the catalog.
C25_KeysOnlyGrow ==
    /\ [][DOMAIN apps \subseteq DOMAIN apps']_vars
    /\ [](last.op = "add" => Range(last.item.packages) \subseteq DOMAIN apps)

\* an add that created one entry beside another that was there before, and
\* the earlier entry is still there
C25_Witness ==
    /\ last.op = "add"
    /\ ops = MaxOps
    /\ \E p, q \in DOMAIN apps :
        /\ p \in Range(last.item.packages) \ DOMAIN last.pre
        /\ q \in DOMAIN last.pre \ Range(last.item.packages)

\* C30: max_version is a running maximum: an add_changelog or add call
\* that leaves an entry's id as it was does not make the entry's
\* max_version smaller than it was before the call.
C30_MaxVersionRunningMaximum ==
    last.op \in {"add", "add_changelog"} =>
        \A p \in DOMAIN last.pre :
            apps[p].id = last.pre[p].id =>
                apps[p].max_version >= last.pre[p].max_version

(***************************************************************************)
(* Rating histogram and derived statistics (data/model/oculus/app.py).     *)
(* A rating is kept in millionths of a star: Item.rating rounds to six     *)
(* decimals.                                                               *)
(***************************************************************************)
MaxVotes == 2       \* vote counts of a histogram entry range over 0..MaxVotes

Stars == {4, 5}

Micro == 1000000

RatingHist == [rating : Stars, votes : 0..MaxVotes]

RECURSIVE SumSeq(_)
SumSeq(s) == IF s = <<>> THEN 0 ELSE Head(s) + SumSeq(Tail(s))

\* Item.votes
votes(hist) == SumSeq([i \in DOMAIN hist |-> hist[i].votes])

\* round(num / den, 0) as Python rounds: to the nearest, a tie to the even
RoundDiv(num, den) ==
    LET q == num \div den
        r == num % den
    IN  IF 2 * r > den \/ (2 * r = den /\ q % 2 = 1) THEN q + 1 ELSE q

\* Item.rating, in millionths
rating(hist) ==
    IF votes(hist) = 0 THEN 0
    ELSE RoundDiv(SumSeq([i \in DOMAIN hist |-> hist[i].votes * hist[i].rating]) * Micro,
                  votes(hist))

\* percentile without the sort.
percentile_unsorted(values, n) ==
    LET index == n * (Len(values) - 1)
        floor == index \div 100
    IN  IF index % 100 = 0 THEN 100 * values[floor + 1]
        ELSE 100 * values[floor + 1]
                + (index % 100) * (values[floor + 2] - values[floor + 1])

\* helpers.math.percentile, times 100 (n is a whole percentage, so the
\* interpolation weight is a whole number of hundredths)
percentile(values, n) ==
    LET sort == SortSeq(values, LAMBDA x, y : x < y)
        index == n * (Len(sort) - 1)
        floor == index \div 100
    IN  IF index % 100 = 0 THEN 100 * sort[floor + 1]
        ELSE 100 * sort[floor + 1] + (index % 100) * (sort[floor + 2] - sort[floor + 1])

(***************************************************************************)
(* Updater.scrape_apps (controller/updater.py).                            *)
(***************************************************************************)
\* what a detail fetch can return for an identity: the fields of the Item
\* that scrape_apps reads
DetailHists ==
    { <<[rating |-> 5, votes |-> 0]>>,
      <<[rating |-> 5, votes |-> MaxVotes]>>,
      <<[rating |-> 5, votes |-> 1], [rating |-> 4, votes |-> 1]>> }

DetailResults ==
    [app_name : {"", "n2"}, price : {NoneList, Some(0), Some(5)},
     is_demo_of : {None, "i1"}, hist : DetailHists]

\* the orders in which a dict can hold the keys ps
Orders(ps) ==
    {o \in [1..Cardinality(ps) -> ps] : \A i, j \in DOMAIN o : i # j => o[i] # o[j]}

\* get_all_by_id keeping one package per id
get_all_by_id_first(a, order) ==
    [i \in {a[p].id : p \in DOMAIN a} \ {None} |->
        <<SelectSeq(order, LAMBDA p : a[p].id = i)[1]>>]

\* AppManager.get_all_by_id, the catalog's keys being iterated in the order `order`
get_all_by_id(a, order) ==
    [i \in {a[p].id : p \in DOMAIN a} \ {None} |->
        SelectSeq(order, LAMBDA p : a[p].id = i)]

\* Item.is_available, Item.is_free and the arguments _scrape_app passes to
\* AppManager.update (has_metadata is not passed: LocalAppUpdate's default)
scrape_update_fields(result) ==
    [app_name |-> result.app_name,
     has_metadata |-> FALSE,
     is_available |-> ~IsNone(result.price),
     is_free |-> (~IsNone(result.price) /\ Get(result.price) = 0),
     is_demo_of |-> (result.is_demo_of # None)]

\* scrape_update applying the result to every package of the catalog
scrape_update_every(a, packages, result) ==
    [p \in DOMAIN a |-> update(a, p, scrape_update_fields(result))[p]]

\* _scrape_app: for i in packages: await self._app_manager.update(i[0], ...)
RECURSIVE scrape_update(_, _, _)
scrape_update(a, packages, result) ==
    IF packages = <<>> THEN a
    ELSE scrape_update(update(a, Head(packages), scrape_update_fields(result)),
                       Tail(packages), result)

\* the catalog document written by save: change_log and is_demo_of are excluded
serialised(a) ==
    [p \in DOMAIN a |-> [a[p] EXCEPT !.change_log = NoneList, !.is_demo_of = FALSE]]

TaskOver(i) == task[i].pc \in {"done", "failed"}

Scraped == {i \in DOMAIN task : task[i].pc = "done"}

RECURSIVE SetToSeq(_)
SetToSeq(S) ==
    IF S = {} THEN <<>>
    ELSE LET x == CHOOSE y \in S : TRUE IN <<x>> \o SetToSeq(S \ {x})

\* scrape_apps up to the gather of the _scrape_app tasks
ScrapeStart ==
    /\ spc = "idle"
    /\ \E order \in Orders(DOMAIN apps) :
        /\ groups' = get_all_by_id(apps, order)
        /\ task' = [i \in DOMAIN groups' |-> [pc |-> "fetch", result |-> NoneList]]
    /\ apps0' = apps
    /\ spc' = "gather"
    /\ UNCHANGED <<apps, catalogVars, rateVars, stableVars, ulVars, loadVars, updVars, pctVars, trackVars, mergeVars, disk, stats, docs>>

\* _scrape_app: _scrape_app_id returned None
FetchFail(i) ==
    /\ spc = "gather"
    /\ task[i].pc = "fetch"
    /\ task' = [task EXCEPT ![i].pc = "failed"]
    /\ UNCHANGED <<apps, catalogVars, rateVars, stableVars, ulVars, loadVars, updVars, pctVars, trackVars, mergeVars, spc, groups, apps0, disk, stats, docs>>

\* _scrape_app: _scrape_app_id returned a result; up to the await of get_resources
FetchOk(i, r) ==
    /\ spc = "gather"
    /\ task[i].pc = "fetch"
    /\ task' = [task EXCEPT ![i] =
            [pc |-> "images",
             result |-> Some([data |-> r,
                              changelog |-> apps[groups[i][1]].change_log,
                              on_rookie |-> Len(apps[groups[i][1]].rookie_releases) > 0])]]
    /\ UNCHANGED <<apps, catalogVars, rateVars, stableVars, ulVars, loadVars, updVars, pctVars, trackVars, mergeVars, spc, groups, apps0, disk, stats, docs>>

\* _scrape_app: from the images to the return
FinishTask(i) ==
    /\ spc = "gather"
    /\ task[i].pc = "images"
    /\ apps' = scrape_update(apps, groups[i], Get(task[i].result).data)
    /\ task' = [task EXCEPT ![i].pc = "done"]
    /\ UNCHANGED <<catalogVars, rateVars, stableVars, ulVars, loadVars, updVars, pctVars, trackVars, mergeVars, spc, groups, apps0, disk, stats, docs>>

\* the catalog save issued while _scrape_app tasks are still open
SaveEarly ==
    /\ spc = "gather"
    /\ \E i \in DOMAIN task : ~TaskOver(i)
    /\ disk' = Some(serialised(apps))
    /\ spc' = "saved"
    /\ UNCHANGED <<apps, catalogVars, rateVars, stableVars, ulVars, loadVars, updVars, pctVars, trackVars, mergeVars, groups, task, apps0, stats, docs>>

\* scrape_apps: await self._app_manager.save()
Save ==
    /\ spc = "gather"
    /\ \A i \in DOMAIN task : TaskOver(i)
    /\ disk' = Some(serialised(apps))
    /\ spc' = "saved"
    /\ UNCHANGED <<apps, catalogVars, rateVars, stableVars, ulVars, loadVars, updVars, pctVars, trackVars, mergeVars, groups, task, apps0, stats, docs>>

\* _calc_average_ratings run while _scrape_app tasks are still open, over
\* the apps scraped so far.
CalcAverageRatingsEarly ==
    /\ spc = "gather"
    /\ Scraped # {}
    /\ \E i \in DOMAIN task : ~TaskOver(i)
    /\ stats' = Some([global_average_rating |-> [num |-> 0, den |-> 100],
                      vote_confidence |-> [num |-> 0, den |-> 100],
                      items |-> Scraped])
    /\ spc' = "stats"
    /\ UNCHANGED <<apps, catalogVars, rateVars, stableVars, ulVars, loadVars, updVars, pctVars, trackVars, mergeVars, groups, task, apps0, disk, docs>>

\* Updater._calc_average_ratings; the division by sum(votes) raises
\* ZeroDivisionError when the votes sum to 0, and scrape_apps ends there
CalcAverageRatings ==
    /\ spc = "saved"
    /\ LET items == SetToSeq(Scraped)
           vs == [k \in DOMAIN items |-> votes(Get(task[items[k]].result).data.hist)]
           rs == [k \in DOMAIN items |-> rating(Get(task[items[k]].result).data.hist)]
           weighted == SumSeq([k \in DOMAIN items |-> vs[k] * rs[k]])
       IN  IF SumSeq(vs) = 0
           THEN /\ spc' = "crashed"
                /\ stats' = stats
           ELSE LET median == percentile(rs, 50)
                    mean_first == weighted * 100 <= median * SumSeq(vs)
                IN  /\ stats' = Some(
                        [global_average_rating |->
                            IF mean_first THEN [num |-> weighted, den |-> SumSeq(vs)]
                            ELSE [num |-> median, den |-> 100],
                         vote_confidence |-> [num |-> percentile(vs, 25), den |-> 100],
                         items |-> Scraped])
                    /\ spc' = "stats"
    /\ UNCHANGED <<apps, catalogVars, rateVars, stableVars, ulVars, loadVars, updVars, pctVars, trackVars, mergeVars, groups, task, apps0, disk, docs>>

\* scrape_apps: r.save_json(...) of one scraped app
SaveJson(i) ==
    /\ spc = "stats"
    /\ i \in Scraped \ DOMAIN docs
    /\ docs' = [j \in DOMAIN docs \cup {i} |->
                    IF j = i THEN [result |-> Get(task[i].result), stats |-> Get(stats)]
                    ELSE docs[j]]
    /\ UNCHANGED <<apps, catalogVars, rateVars, stableVars, ulVars, loadVars, updVars, pctVars, trackVars, mergeVars, spc, groups, task, apps0, disk, stats>>

\* scrape_apps returns
ScrapeReturn ==
    /\ spc = "stats"
    /\ Scraped = DOMAIN docs
    /\ spc' = "done"
    /\ UNCHANGED <<apps, catalogVars, rateVars, stableVars, ulVars, loadVars, updVars, pctVars, trackVars, mergeVars, groups, task, apps0, disk, stats, docs>>

\* the catalogs scrape_apps starts from
ScrapeApp ==
    {[LocalApp(id, "n1", 0, 0, r) EXCEPT !.change_log = cl] :
        id \in Ids \cup {None}, r \in RookieReleases, cl \in {NoneList, Some(<<>>)}}

ScrapeCatalogs == UNION {[ps -> ScrapeApp] : ps \in SUBSET Packages}

ScrapeInit ==
    /\ apps \in ScrapeCatalogs
    /\ CatalogIdle
    /\ RateIdle
    /\ StableIdle
    /\ ListIdle
    /\ LoadIdle
    /\ UpdateIdle
    /\ PctIdle
    /\ ScrapeIdle
    /\ TrackIdle
    /\ MergeIdle

ScrapeNext ==
    \/ ScrapeStart
    \/ \E i \in DOMAIN task : FetchFail(i)
    \/ \E i \in DOMAIN task, r \in DetailResults : FetchOk(i, r)
    \/ \E i \in DOMAIN task : FinishTask(i)
    \/ Save
    \/ CalcAverageRatings
    \/ \E i \in DOMAIN task : SaveJson(i)
    \/ ScrapeReturn

SpecScrape == ScrapeInit /\ [][ScrapeNext]_vars

(***************************************************************************)
(* Properties of scrape_apps.                                              *)
(***************************************************************************)
Failed == {i \in DOMAIN task : task[i].pc = "failed"}

\* the entry of package p after the task of its own identity alone has acted
OwnOutcome(p) ==
    IF apps0[p].id \in Scraped
    THEN update(apps0, p, scrape_update_fields(Get(task[apps0[p].id].result).data))[p]
    ELSE apps0[p]

\* C1: when the detail fetch of an identity returned no result, every LocalApp
\* of that identity equals its state at the start of scrape_apps, and no
\* LocalApp of another identity is removed or differs from what its own
\* identity's task made of it.
C1_PartialFailureIsolation ==
    (spc # "idle" /\ Failed # {}) =>
        /\ DOMAIN apps = DOMAIN apps0
        /\ \A p \in DOMAIN apps0 :
            /\ apps0[p].id \in Failed => apps[p] = apps0[p]
            /\ apps0[p].id \notin Failed => apps[p] = OwnOutcome(p)

\* scrape_apps is over, one identity failed and another one was updated
C1_Witness ==
    /\ spc \in {"done", "crashed"}
    /\ \E p, q \in DOMAIN apps0 :
        /\ apps0[p].id \in Failed
        /\ apps0[q].id \in Scraped
        /\ apps[q] # apps0[q]

(***************************************************************************)
(* Field-group change tracking: Item.set_update_details.                   *)
(* The Item is the merged record of this run, prev_app the record the      *)
(* previous run persisted for the same package (ProcessedApp).             *)
(***************************************************************************)
MaxStamp == 2
MaxFocus == 2
DefaultUpdate == 475000

ListGroups ==
    {"genres", "devices", "modes", "languages", "platforms", "player_modes",
     "keywords", "tags"}
Groups == ListGroups \cup {"general", "rating", "iarc", "changelog"}

GeneralScalars ==
    {"app_name", "release_date", "description", "developer", "publisher",
     "comfort", "internet_connection", "website", "on_rookie", "category",
     "weighted_rating"}

\* The name of the timestamp field of a group.
UpdateField(g) ==
    CASE g = "genres" -> "genre_update"
      [] g = "devices" -> "device_update"
      [] g = "modes" -> "mode_update"
      [] g = "languages" -> "language_update"
      [] g = "platforms" -> "platform_update"
      [] g = "player_modes" -> "player_mode_update"
      [] g = "keywords" -> "keyword_update"
      [] g = "tags" -> "tag_update"
      [] g = "general" -> "general_update"
      [] g = "rating" -> "rating_update"
      [] g = "iarc" -> "iarc_detail_update"
      [] g = "changelog" -> "changelog_update"

\* AppImages.get_serialised_object: every slot holds the image's name or None.
get_serialised_object(images) ==
    [k \in DOMAIN images |->
        IF IsNone(images[k]) THEN None ELSE Get(images[k]).name]

\* AppChangeEntry.model_dump_json: code is excluded from the dump.
model_dump_json(entry) ==
    [version |-> entry.version, change_log |-> entry.change_log]

dump_all(log) == [i \in DOMAIN log |-> model_dump_json(log[i])]

\* The Item of this run; its timestamps still hold the class defaults.
TrackedItem ==
    [app_name |-> "x", release_date |-> "x", description |-> "x",
     developer |-> "x", publisher |-> "x", comfort |-> "x",
     internet_connection |-> "x", website |-> "x", on_rookie |-> "x",
     category |-> "x", weighted_rating |-> "x",
     app_images |-> [icon |-> Some([name |-> "x", url |-> "u"])],
     hist |-> <<[rating |-> 5, votes |-> 1]>>,
     iarc |-> [descriptors |-> <<"a", "b">>, elements |-> <<>>],
     changelog |-> <<[version |-> "1.0", code |-> 1, change_log |-> "t"]>>,
     genres |-> <<"a", "b">>, devices |-> <<"a", "b">>,
     modes |-> <<"a", "b">>, languages |-> <<"a", "b">>,
     platforms |-> <<"a", "b">>, player_modes |-> <<"a", "b">>,
     keywords |-> <<"a", "b">>, tags |-> <<"a", "b">>,
     general_update |-> DefaultUpdate, genre_update |-> DefaultUpdate,
     device_update |-> DefaultUpdate, mode_update |-> DefaultUpdate,
     language_update |-> DefaultUpdate, platform_update |-> DefaultUpdate,
     player_mode_update |-> DefaultUpdate, changelog_update |-> DefaultUpdate,
     keyword_update |-> DefaultUpdate, tag_update |-> DefaultUpdate,
     rating_update |-> DefaultUpdate, iarc_detail_update |-> DefaultUpdate]

\* The record a previous run persisted from an Item, all stamped alike.
Persisted(self, stamp) ==
    [app_name |-> self.app_name, release_date |-> self.release_date,
     description |-> self.description, developer |-> self.developer,
     publisher |-> self.publisher, comfort |-> self.comfort,
     internet_connection |-> self.internet_connection,
     website |-> self.website, on_rookie |-> self.on_rookie,
     category |-> self.category, weighted_rating |-> self.weighted_rating,
     app_images |-> get_serialised_object(self.app_images),
     votes |-> votes(self.hist), rating |-> rating(self.hist),
     iarc |-> self.iarc, changelog |-> dump_all(self.changelog),
     genres |-> self.genres, devices |-> self.devices, modes |-> self.modes,
     languages |-> self.languages, platforms |-> self.platforms,
     player_modes |-> self.player_modes, keywords |-> self.keywords,
     tags |-> self.tags,
     general_update |-> stamp, genre_update |-> stamp,
     device_update |-> stamp, mode_update |-> stamp,
     language_update |-> stamp, platform_update |-> stamp,
     player_mode_update |-> stamp, changelog_update |-> stamp,
     keyword_update |-> stamp, tag_update |-> stamp,
     rating_update |-> stamp, iarc_detail_update |-> stamp]

Stamps == 0..MaxStamp
NewDates == 1..(MaxStamp + 1)
ListValues == {<<"a", "b">>, <<"b", "a">>, <<"a">>}
IarcValues ==
    {[descriptors |-> <<"a", "b">>, elements |-> <<>>],
     [descriptors |-> <<"b", "a">>, elements |-> <<>>],
     [descriptors |-> <<"a", "b">>, elements |-> <<"a">>]}
ChangelogValues ==
    {<<[version |-> "1.0", change_log |-> "t"]>>,
     <<[version |-> "1.0", change_log |-> None]>>,
     <<>>}
ImageValues == {[icon |-> "x"], [icon |-> "y"], [icon |-> None]}

\* What the previous record may hold for one group: its value and its stamp.
Variants(g) ==
    IF g \in ListGroups
    THEN {(g :> l) @@ (UpdateField(g) :> s) : l \in ListValues, s \in Stamps}
    ELSE IF g = "general"
    THEN {("general_update" :> s) : s \in Stamps}
         \cup {(f :> "y") @@ ("general_update" :> s) :
                  f \in GeneralScalars, s \in Stamps}
         \cup {("app_images" :> i) @@ ("general_update" :> s) :
                  i \in ImageValues, s \in Stamps}
    ELSE IF g = "rating"
    THEN {("votes" :> votes(h)) @@ ("rating" :> rating(h))
              @@ ("rating_update" :> s) :
                  h \in {<<[rating |-> 5, votes |-> 1]>>,
                         <<[rating |-> 5, votes |-> MaxVotes]>>,
                         <<[rating |-> 4, votes |-> 1]>>},
                  s \in Stamps}
    ELSE IF g = "iarc"
    THEN {("iarc" :> i) @@ ("iarc_detail_update" :> s) :
              i \in IarcValues, s \in Stamps}
    ELSE {("changelog" :> c) @@ ("changelog_update" :> s) :
              c \in ChangelogValues, s \in Stamps}

Override(r, o) == [f \in DOMAIN r |-> IF f \in DOMAIN o THEN o[f] ELSE r[f]]

RECURSIVE Vary(_, _)
Vary(focus, base) ==
    IF focus = {} THEN {base}
    ELSE LET g == CHOOSE x \in focus : TRUE
         IN UNION {Vary(focus \ {g}, Override(base, o)) : o \in Variants(g)}

\* Previous records: at most MaxFocus groups differ from the item's own
\* persisted form, in value, in stamp or in both.
ProcessedApp ==
    UNION {Vary(focus, Persisted(TrackedItem, MaxStamp)) :
              focus \in {f \in SUBSET Groups : Cardinality(f) <= MaxFocus}}

\* Python's "x or y" on an optional integer: None and 0 are both falsy.
or_new_date(x, nd) == IF IsNone(x) \/ Get(x) = 0 THEN nd ELSE Get(x)

get_general_update(self, nd, prev) ==
    IF \/ self.app_name # prev.app_name
       \/ self.release_date # prev.release_date
       \/ self.description # prev.description
       \/ self.developer # prev.developer
       \/ self.publisher # prev.publisher
       \/ self.comfort # prev.comfort
       \/ self.internet_connection # prev.internet_connection
       \/ self.website # prev.website
       \/ self.on_rookie # prev.on_rookie
       \/ self.category # prev.category
       \/ self.weighted_rating # prev.weighted_rating
       \/ get_serialised_object(self.app_images) # prev.app_images
    THEN nd
    ELSE prev.general_update

get_rating_update(self, nd, prev) ==
    IF votes(self.hist) # prev.votes \/ rating(self.hist) # prev.rating
    THEN nd
    ELSE prev.rating_update

get_iarc_detail_update(self, nd, prev) ==
    IF \/ self.iarc.descriptors # prev.iarc.descriptors
       \/ self.iarc.elements # prev.iarc.elements
    THEN nd
    ELSE prev.iarc_detail_update

get_changelog_update(self, nd, prev) ==
    IF dump_all(self.changelog) # prev.changelog
    THEN nd
    ELSE prev.changelog_update

prev_list_update(list_1, list_2, prev_date) ==
    IF Range(list_1) = Range(list_2) THEN Some(prev_date) ELSE NoneList

check_details_update(self, nd, prev) ==
    [self EXCEPT
        !.genre_update = or_new_date(
            prev_list_update(prev.genres, self.genres, prev.genre_update), nd),
        !.device_update = or_new_date(
            prev_list_update(prev.devices, self.devices, prev.device_update),
            nd),
        !.mode_update = or_new_date(
            prev_list_update(prev.modes, self.modes, prev.mode_update), nd),
        !.language_update = or_new_date(
            prev_list_update(prev.languages, self.languages,
                             prev.language_update), nd),
        !.platform_update = or_new_date(
            prev_list_update(prev.platforms, self.platforms,
                             prev.platform_update), nd),
        !.player_mode_update = or_new_date(
            prev_list_update(prev.player_modes, self.player_modes,
                             prev.player_mode_update), nd),
        !.keyword_update = or_new_date(
            prev_list_update(prev.keywords, self.keywords,
                             prev.keyword_update), nd),
        !.tag_update = or_new_date(
            prev_list_update(prev.tags, self.tags, prev.tag_update), nd)]

set_update_details(self, nd, prev) ==
    IF IsNone(prev)
    THEN [self EXCEPT
            !.general_update = nd, !.genre_update = nd,
            !.device_update = nd, !.mode_update = nd,
            !.language_update = nd, !.platform_update = nd,
            !.player_mode_update = nd, !.keyword_update = nd,
            !.tag_update = nd, !.rating_update = nd,
            !.iarc_detail_update = nd, !.changelog_update = nd]
    ELSE check_details_update(
            [self EXCEPT
                !.general_update = get_general_update(self, nd, Get(prev)),
                !.rating_update = get_rating_update(self, nd, Get(prev)),
                !.iarc_detail_update =
                    get_iarc_detail_update(self, nd, Get(prev)),
                !.changelog_update =
                    get_changelog_update(self, nd, Get(prev))],
            nd, Get(prev))

TrackInit ==
    /\ apps = <<>>
    /\ CatalogIdle
    /\ RateIdle
    /\ StableIdle
    /\ ListIdle
    /\ LoadIdle
    /\ UpdateIdle
    /\ PctIdle
    /\ ScrapeIdle
    /\ tracked = TrackedItem
    /\ prev_app \in {NoneList} \cup {Some(p) : p \in ProcessedApp}
    /\ new_date \in NewDates
    /\ tpc = "call"
    /\ MergeIdle

SetUpdateDetails ==
    /\ tpc = "call"
    /\ tracked' = set_update_details(tracked, new_date, prev_app)
    /\ tpc' = "done"
    /\ UNCHANGED <<apps, catalogVars, rateVars, stableVars, ulVars, loadVars, updVars, pctVars, scrapeVars, mergeVars, prev_app, new_date>>

TrackNext == SetUpdateDetails

SpecTrack == TrackInit /\ [][TrackNext]_vars

\* The value of group g is the same in this run as in the previous record.
Unchanged(g) ==
    LET prev == Get(prev_app)
    IN CASE g \in ListGroups -> Range(tracked[g]) = Range(prev[g])
         [] g = "general" ->
                /\ \A f \in GeneralScalars : tracked[f] = prev[f]
                /\ get_serialised_object(tracked.app_images) = prev.app_images
         [] g = "rating" ->
                /\ votes(tracked.hist) = prev.votes
                /\ rating(tracked.hist) = prev.rating
         [] g = "iarc" ->
                /\ tracked.iarc.descriptors = prev.iarc.descriptors
                /\ tracked.iarc.elements = prev.iarc.elements
         [] g = "changelog" -> dump_all(tracked.changelog) = prev.changelog

StampOf(g) == tracked[UpdateField(g)]
PrevStampOf(g) == Get(prev_app)[UpdateField(g)]

\* C5: after set_update_details with a previous record, every group whose
\* value is identical to the previous run's value (lists compared as sets)
\* carries the previous record's timestamp, whatever that timestamp is.
C5_UnchangedKeepsTimestamp ==
    (tpc = "done" /\ ~IsNone(prev_app)) =>
        \A g \in Groups : Unchanged(g) => StampOf(g) = PrevStampOf(g)

\* C6: after set_update_details, a group whose value differs from the
\* previous run's gets new_date; with no previous record all twelve groups
\* get new_date; and a change in one group leaves the timestamp of every
\* group whose value is unchanged where the previous record had it.
C6_ChangedAndFirstSeen ==
    tpc = "done" =>
        /\ IsNone(prev_app) => \A g \in Groups : StampOf(g) = new_date
        /\ ~IsNone(prev_app) =>
            /\ \A g \in Groups : ~Unchanged(g) => StampOf(g) = new_date
            /\ \A g, h \in Groups :
                (~Unchanged(g) /\ Unchanged(h)) => StampOf(h) = PrevStampOf(h)

(***************************************************************************)
(* Consolidation of detail records: MetaParser.parse                       *)
(* (controller/meta_parser.py) and Parser.parse (controller/parser.py).    *)
(* A response wraps the detail record (data) and the package it is         *)
(* attributed to.  The record carries the fields either parser touches.    *)
(***************************************************************************)
MaxResponses == 3
MaxLen == 3

Elems == {"a", "b", "c"}

ItemId(k) == CASE k = 1 -> "i1" [] k = 2 -> "i2" [] k = 3 -> "i3" [] OTHER -> "i4"

\* The lists over S of length at most n.
SeqsUpTo(S, n) == UNION {[1..k -> S] : k \in 0..n}

NoDuplicates(l) == \A i, j \in DOMAIN l : l[i] = l[j] => i = j

\* Histograms hold one entry per star value.
Hists == {h \in SeqsUpTo(RatingHist, Cardinality(Stars)) :
             \A i, j \in DOMAIN h : h[i].rating = h[j].rating => i = j}

DetailItem(id) ==
    [id |-> id, release_date |-> 0, additional_ids |-> NoneList,
     genres |-> <<"a", id>>, devices |-> <<"a", id>>, modes |-> <<"a", id>>,
     languages |-> <<"a", id>>, platforms |-> <<"a", id>>,
     player_modes |-> <<"a", id>>, tags |-> <<"a", id>>,
     keywords |-> <<"a", id>>,
     hist |-> <<[rating |-> 5, votes |-> 1]>>,
     logo_landscape |-> None, logo_portrait |-> None, logo_square |-> None,
     app_images |-> [icon |-> NoneList], translations |-> NoneList,
     price |-> NoneList]

Response(data) == [package |-> None, data |-> data]

\* Python's "x or y" for an optional str, an optional list and a dict.
str_or(x, y) == IF x = None \/ x = "" THEN y ELSE x
list_or(x, y) == IF IsNone(x) \/ Get(x) = <<>> THEN y ELSE x
dict_or(x, y) == IF DOMAIN x = {} THEN y ELSE x

\* _merge_list with the filter evaluated against the base as it was.
merge_list_eager(base, upd) ==
    base \o SelectSeq(upd, LAMBDA x : x \notin Range(base))

\* _merge_list: extend consumes the generator item by item, so "item not
\* in base" sees the items appended so far.
RECURSIVE merge_list(_, _)
merge_list(base, upd) ==
    IF upd = <<>> THEN base
    ELSE merge_list(IF Head(upd) \in Range(base) THEN base
                    ELSE Append(base, Head(upd)),
                    Tail(upd))

\* _merge_ratings adding the votes whatever the star value.
merge_ratings_any_star(base_rating, update_rating) ==
    [base_rating EXCEPT !.votes = @ + update_rating.votes]

merge_ratings(base_rating, update_rating) ==
    IF base_rating.rating = update_rating.rating
    THEN [base_rating EXCEPT !.votes = @ + update_rating.votes]
    ELSE base_rating

update_single_rating(base, update_rating) ==
    [i \in DOMAIN base |-> merge_ratings(base[i], update_rating)]

RECURSIVE update_ratings(_, _)
update_ratings(base, upd) ==
    IF upd = <<>> THEN base
    ELSE update_ratings(update_single_rating(base, Head(upd)), Tail(upd))

update_availability(base, upd) ==
    IF ~IsNone(upd.price) /\ Get(upd.price) > 0
    THEN [base EXCEPT !.price = upd.price]
    ELSE base

\* MetaParser._consolidate_results
meta_consolidate_results(base, upd) ==
    LET ids == IF IsNone(base.additional_ids) THEN <<>>
               ELSE Get(base.additional_ids)
    IN update_availability(
        [base EXCEPT
            !.logo_landscape = str_or(@, upd.logo_landscape),
            !.logo_portrait = str_or(@, upd.logo_portrait),
            !.logo_square = str_or(@, upd.logo_square),
            !.additional_ids = Some(merge_list(ids, <<upd.id>>)),
            !.genres = merge_list(@, upd.genres),
            !.devices = merge_list(@, upd.devices),
            !.modes = merge_list(@, upd.modes),
            !.languages = merge_list(@, upd.languages),
            !.platforms = merge_list(@, upd.platforms),
            !.player_modes = merge_list(@, upd.player_modes),
            !.tags = merge_list(@, upd.tags),
            !.hist = update_ratings(@, upd.hist)],
        upd)

\* Parser._consolidate_results
parser_consolidate_results(base, upd) ==
    LET ids == Get(list_or(base.additional_ids, Some(<<>>)))
    IN [base EXCEPT
            !.additional_ids = Some(merge_list(ids, <<upd.id>>)),
            !.app_images = dict_or(@, upd.app_images),
            !.translations = list_or(@, upd.translations),
            !.genres = merge_list(@, upd.genres),
            !.devices = merge_list(@, upd.devices),
            !.modes = merge_list(@, upd.modes),
            !.languages = merge_list(@, upd.languages),
            !.platforms = merge_list(@, upd.platforms),
            !.player_modes = merge_list(@, upd.player_modes),
            !.tags = merge_list(@, upd.tags),
            !.keywords = merge_list(@, upd.keywords),
            !.hist = update_ratings(@, upd.hist)]

new_base_check(base, new) ==
    \/ new.release_date > base.release_date
    \/ /\ new.release_date = base.release_date
       /\ votes(new.hist) > votes(base.hist)

\* The loop of _identify_base from position i on, b being the base so far.
RECURSIVE base_result(_, _, _)
base_result(rs, i, b) ==
    IF i > Len(rs) THEN b
    ELSE base_result(rs, i + 1,
                     IF new_base_check(rs[b].data, rs[i].data) THEN i ELSE b)

\* list.pop(i)
Pop(rs, i) == SubSeq(rs, 1, i - 1) \o SubSeq(rs, i + 1, Len(rs))

identify_base(rs) ==
    LET b == base_result(rs, 2, 1)
    IN [index |-> b, base |-> rs[b], rest |-> Pop(rs, b)]

\* for merge in base[1]: cls._consolidate_results(consol.data, merge.data)
RECURSIVE meta_consolidate_all(_, _)
meta_consolidate_all(data, rest) ==
    IF rest = <<>> THEN data
    ELSE meta_consolidate_all(meta_consolidate_results(data, Head(rest).data),
                              Tail(rest))

\* for merge in additional: cls._consolidate_results(primary.data, merge.data)
RECURSIVE parser_consolidate_all(_, _)
parser_consolidate_all(data, rest) ==
    IF rest = <<>> THEN data
    ELSE parser_consolidate_all(
            parser_consolidate_results(data, Head(rest).data), Tail(rest))

\* MetaParser.parse
meta_parse(meta_responses, package) ==
    IF Len(meta_responses) > 1
    THEN LET base == identify_base(meta_responses)
         IN [package |-> package,
             data |-> meta_consolidate_all(base.base.data, base.rest)]
    ELSE [meta_responses[1] EXCEPT !.package = package]

\* Parser.parse merging the primary into itself as well.
parse_with_self(primary, additional, package) ==
    [package |-> package,
     data |-> parser_consolidate_all(primary.data, <<primary>> \o additional)]

\* Parser.parse
parse(primary, additional, package) ==
    [package |-> package,
     data |-> parser_consolidate_all(primary.data, additional)]

\* Records that differ in release date and votes only.
SelectInputs ==
    UNION {{[k \in 1..n |->
                Response([DetailItem(ItemId(k)) EXCEPT
                            !.release_date = f[k][1],
                            !.hist = <<[rating |-> 5, votes |-> f[k][2]]>>])] :
               f \in [1..n -> (0..MaxDate) \X (0..MaxVotes)]} :
           n \in 1..MaxResponses}

\* A primary and one additional record that differ in a classification list.
ListInputs ==
    {<<Response([DetailItem(ItemId(1)) EXCEPT !.genres = l1, !.keywords = l1]),
       Response([DetailItem(ItemId(2)) EXCEPT !.genres = l2, !.keywords = l2])>> :
        l1 \in SeqsUpTo(Elems, MaxLen), l2 \in SeqsUpTo(Elems, MaxLen)}

\* A primary and one additional record that differ in the histogram.
HistInputs ==
    {<<Response([DetailItem(ItemId(1)) EXCEPT !.hist = h1]),
       Response([DetailItem(ItemId(2)) EXCEPT !.hist = h2])>> :
        h1 \in Hists, h2 \in Hists}

Image(name) == [icon |-> Some([name |-> name, url |-> "u"])]

\* A primary and one additional record that differ in ids, price and images.
IdInputs ==
    {<<Response([DetailItem(ItemId(1)) EXCEPT
                    !.additional_ids = v.ids, !.price = v.price[1],
                    !.logo_square = v.logo[1], !.app_images = v.images[1],
                    !.translations = v.translations]),
       Response([DetailItem(v.id) EXCEPT
                    !.price = v.price[2], !.logo_square = v.logo[2],
                    !.app_images = v.images[2],
                    !.translations = Some(<<"t">>)])>> :
        v \in [ids : {NoneList, Some(<<>>), Some(<<ItemId(2)>>),
                      Some(<<ItemId(3)>>)},
               id : {ItemId(2), ItemId(3)},
               price : {NoneList, Some(0), Some(5)}
                           \X {NoneList, Some(0), Some(5)},
               logo : {None, "x"} \X {None, "y"},
               images : {DetailItem("")["app_images"], Image("x")}
                            \X {DetailItem("")["app_images"], Image("y")},
               translations : {NoneList, Some(<<>>)}]}

PairInputs == ListInputs \cup HistInputs \cup IdInputs

MergeInputs ==
    SelectInputs \cup PairInputs \cup {<<rs[1]>> : rs \in PairInputs}

MergeInit ==
    /\ apps = <<>>
    /\ CatalogIdle
    /\ RateIdle
    /\ StableIdle
    /\ ListIdle
    /\ LoadIdle
    /\ UpdateIdle
    /\ PctIdle
    /\ ScrapeIdle
    /\ TrackIdle
    /\ responses \in MergeInputs
    /\ consol = NoneList
    /\ base_idx = 0
    /\ merged = <<>>
    /\ mpc = "call"

IdsOf(rs) == [i \in DOMAIN rs |-> rs[i].data.id]

MetaParse(package) ==
    /\ mpc = "call"
    /\ consol' = Some(meta_parse(responses, package))
    /\ base_idx' = IF Len(responses) > 1 THEN identify_base(responses).index
                   ELSE 1
    /\ merged' = IF Len(responses) > 1
                 THEN IdsOf(identify_base(responses).rest)
                 ELSE <<>>
    /\ mpc' = "meta"
    /\ UNCHANGED <<apps, catalogVars, rateVars, stableVars, ulVars, loadVars, updVars, pctVars, scrapeVars, trackVars, responses>>

Parse(package) ==
    /\ mpc = "call"
    /\ consol' = Some(parse(Head(responses), Tail(responses), package))
    /\ base_idx' = 1
    /\ merged' = IdsOf(Tail(responses))
    /\ mpc' = "parser"
    /\ UNCHANGED <<apps, catalogVars, rateVars, stableVars, ulVars, loadVars, updVars, pctVars, scrapeVars, trackVars, responses>>

MergeNext ==
    \/ \E package \in Packages : MetaParse(package)
    \/ \E package \in Packages : Parse(package)

SpecMerge == MergeInit /\ [][MergeNext]_vars

Parsed == mpc \in {"meta", "parser"}
BaseItem == responses[base_idx].data
ConsolItem == Get(consol).data
Others == Pop(responses, base_idx)

\* x is a better base than y: released later, or as late with more votes.
Better(x, y) ==
    \/ x.release_date > y.release_date
    \/ x.release_date = y.release_date /\ votes(x.hist) > votes(y.hist)

\* C7: when a primary and at least one additional record are consolidated,
\* the base is the record with the latest release date, ties broken by the
\* higher vote count, further ties by the earliest position; and every
\* other record is merged into that base exactly once.
C7_BaseSelection ==
    (Parsed /\ Len(responses) > 1) =>
        /\ \A j \in DOMAIN responses : ~Better(responses[j].data, BaseItem)
        /\ \A j \in 1..(base_idx - 1) : Better(BaseItem, responses[j].data)
        /\ ConsolItem.id = BaseItem.id
        /\ merged = IdsOf(Others)

\* C8: consolidating a primary with no additional records returns the
\* primary's record unchanged: lists, additional ids, images, histogram,
\* price and every other field of the record.
C8_MergeIdempotence ==
    (Parsed /\ Len(responses) = 1) => ConsolItem = responses[1].data

C8_Witness ==
    /\ mpc = "parser"
    /\ Len(responses) = 1
    /\ responses[1].data.genres # <<>>
    /\ votes(responses[1].data.hist) > 0
    /\ Get(consol).package # responses[1].package

RECURSIVE Flatten(_)
Flatten(ss) == IF ss = <<>> THEN <<>> ELSE Head(ss) \o Flatten(Tail(ss))

\* l without the later occurrences of a repeated item.
RECURSIVE FirstOccurrences(_)
FirstOccurrences(l) ==
    IF l = <<>> THEN <<>>
    ELSE LET front == FirstOccurrences(SubSeq(l, 1, Len(l) - 1))
         IN IF l[Len(l)] \in Range(front) THEN front
            ELSE Append(front, l[Len(l)])

\* base in its order, then the items of upd that base lacks, in upd's
\* order, each once.
UnionInOrder(base, upd) ==
    base \o FirstOccurrences(SelectSeq(upd, LAMBDA x : x \notin Range(base)))

\* The classification lists each parser merges.
MergedLists ==
    {"genres", "devices", "modes", "languages", "platforms", "player_modes",
     "tags"} \cup (IF mpc = "parser" THEN {"keywords"} ELSE {})

\* C9: a merged classification list is the base's list followed by the
\* update items the base lacked, in update order, each appended once; a
\* base without duplicates gives a result without duplicates, also when
\* the update repeats an item; the merged records' ids are added to the
\* base's additional ids the same way.
C9_ListUnion ==
    Parsed =>
        /\ \A f \in MergedLists :
            /\ ConsolItem[f] = UnionInOrder(BaseItem[f],
                    Flatten([i \in DOMAIN Others |-> Others[i].data[f]]))
            /\ NoDuplicates(BaseItem[f]) => NoDuplicates(ConsolItem[f])
        /\ Others # <<>> =>
            ConsolItem.additional_ids =
                Some(UnionInOrder(IF IsNone(BaseItem.additional_ids) THEN <<>>
                                  ELSE Get(BaseItem.additional_ids),
                                  IdsOf(Others)))

C9_Witness ==
    /\ Parsed
    /\ Len(responses) = 2
    /\ BaseItem.genres # <<>>
    /\ NoDuplicates(BaseItem.genres)
    /\ \E i, j \in DOMAIN Others[1].data.genres :
        /\ i # j
        /\ Others[1].data.genres[i] = Others[1].data.genres[j]
        /\ Others[1].data.genres[i] \notin Range(BaseItem.genres)
    /\ Len(ConsolItem.genres) = Len(BaseItem.genres) + 1

\* The votes the merged records hold for a star value.
UpdateVotes(star) ==
    LET entries == Flatten([i \in DOMAIN Others |-> Others[i].data.hist])
    IN SumSeq([i \in DOMAIN entries |->
                IF entries[i].rating = star THEN entries[i].votes ELSE 0])

RECURSIVE SumOver(_, _)
SumOver(S, f) ==
    IF S = {} THEN 0
    ELSE LET x == CHOOSE y \in S : TRUE IN f[x] + SumOver(S \ {x}, f)

\* C10: every update entry's votes are added to the base entry with the
\* same star value and an update entry whose star the base lacks is dropped;
\* the merged record's votes is the sum of the merged histogram's counts and
\* its rating the vote-weighted mean of the stars (to six decimals), or 0
\* when there are no votes.
C10_HistogramMerge ==
    Parsed =>
        LET hist == ConsolItem.hist
            total == SumOver(DOMAIN hist, [i \in DOMAIN hist |-> hist[i].votes])
            weighted == SumOver(DOMAIN hist,
                            [i \in DOMAIN hist |-> hist[i].votes * hist[i].rating])
            error == rating(hist) * total - weighted * Micro
        IN /\ Len(hist) = Len(BaseItem.hist)
           /\ \A i \in DOMAIN hist :
                /\ hist[i].rating = BaseItem.hist[i].rating
                /\ hist[i].votes =
                        BaseItem.hist[i].votes + UpdateVotes(hist[i].rating)
           /\ votes(hist) = total
           /\ total = 0 => rating(hist) = 0
           /\ total > 0 => (2 * error <= total /\ -2 * error <= total)

C10_Witness ==
    /\ Parsed
    /\ Len(responses) = 2
    /\ \E i \in DOMAIN Others[1].data.hist :
        /\ Others[1].data.hist[i].votes > 0
        /\ \A j \in DOMAIN BaseItem.hist :
            BaseItem.hist[j].rating # Others[1].data.hist[i].rating
    /\ votes(ConsolItem.hist) > votes(BaseItem.hist)

\* The same primary with the additional records supplied in another order.
Reordered(rs) ==
    {<<rs[1]>> \o [i \in 1..(Len(rs) - 1) |-> rs[o[i]]] :
        o \in Orders(2..Len(rs))}

\* What the parser that ran returns for the responses rs.
ParseOf(rs) ==
    IF mpc = "meta" THEN meta_parse(rs, Get(consol).package).data
    ELSE parse(Head(rs), Tail(rs), Get(consol).package).data

\* C11: for a fixed primary and a fixed set of additional records the
\* consolidated record (chosen base, classification lists, additional ids,
\* histogram, votes) is the same for every order of the additional records.
C11_OrderIndependence ==
    Parsed =>
        \A rs \in Reordered(responses) :
            LET other == ParseOf(rs)
            IN /\ other.id = ConsolItem.id
               /\ \A f \in MergedLists : other[f] = ConsolItem[f]
               /\ other.additional_ids = ConsolItem.additional_ids
               /\ other.hist = ConsolItem.hist
               /\ votes(other.hist) = votes(ConsolItem.hist)

LogoRoles == {"logo_landscape", "logo_portrait", "logo_square"}

\* C12: after merging one update record into the base, every image role
\* holds the base's original image if the base had one, and otherwise the
\* update's image for that role; a slot the base had is never overwritten.
\* The roles are the logos of MetaParser's record and the slots of
\* app_images of Parser's record.
C12_ImageSlotMerge ==
    (Parsed /\ Len(responses) = 2) =>
        LET upd == Others[1].data
        IN IF mpc = "meta"
           THEN \A r \in LogoRoles :
                    ConsolItem[r] =
                        IF BaseItem[r] # None THEN BaseItem[r] ELSE upd[r]
           ELSE \A k \in DOMAIN BaseItem.app_images :
                    ConsolItem.app_images[k] =
                        IF ~IsNone(BaseItem.app_images[k])
                        THEN BaseItem.app_images[k]
                        ELSE upd.app_images[k]

(***************************************************************************)
(* Further properties of scrape_apps.                                      *)
(***************************************************************************)
\* C13: the global statistics are computed from the full set of scraped
\* apps once every _scrape_app task is over, and every JSON document is
\* written with exactly those statistics: none before them, none with
\* statistics of a partial set.
C13_TwoPassRating ==
    /\ ~IsNone(stats) =>
        /\ \A i \in DOMAIN task : TaskOver(i)
        /\ Get(stats).items = Scraped
    /\ \A i \in DOMAIN docs :
        /\ ~IsNone(stats)
        /\ docs[i].stats = Get(stats)
        /\ docs[i].stats.items = Scraped

C13_Witness ==
    /\ spc = "done"
    /\ Cardinality(DOMAIN docs) > 1
    /\ Failed = {}
    /\ \E i, j \in DOMAIN docs :
        votes(docs[i].result.data.hist) # votes(docs[j].result.data.hist)

\* C15: nothing is fatal in scrape_apps: whatever the fetch outcomes (every
\* fetch failing, no identity to scrape, all scraped apps without votes),
\* the run never ends in an exception, and when it ends the catalog is
\* saved, the statistics are computed and the documents of the scraped
\* identities are written.
C15_NothingFatalPhase2 ==
    /\ spc # "crashed"
    /\ spc = "done" =>
        /\ ~IsNone(disk)
        /\ ~IsNone(stats)
        /\ DOMAIN docs = Scraped

\* the number of places a package takes in a group
Places(g, p) == Cardinality({k \in DOMAIN g : g[k] = p})

\* C18: phase 2 grouping by identity: get_all_by_id places every cataloged
\* package that has an id in exactly one group, the one keyed by that id,
\* and packages without id in no group; when the detail fetch of an
\* identity has succeeded and its task has finished, every package of the
\* identity's group carries the availability, free and demo flags derived
\* from the fetched record and its display name (kept when the record's
\* name is empty), the same for the whole group.
C18_GroupingByIdentity ==
    spc # "idle" =>
        /\ DOMAIN groups = {apps0[p].id : p \in DOMAIN apps0} \ {None}
        /\ \A p \in DOMAIN apps0 : \A i \in DOMAIN groups :
            Places(groups[i], p) = IF apps0[p].id = i THEN 1 ELSE 0
        /\ \A i \in DOMAIN task : task[i].pc = "done" =>
            LET r == Get(task[i].result).data IN
            \A p \in Range(groups[i]) :
                /\ apps[p].is_available = ~IsNone(r.price)
                /\ apps[p].is_free = (~IsNone(r.price) /\ Get(r.price) = 0)
                /\ apps[p].is_demo_of = (r.is_demo_of # None)
                /\ apps[p].app_name = IF r.app_name # "" THEN r.app_name ELSE apps0[p].app_name
                /\ \A q \in Range(groups[i]) :
                    /\ apps[q].is_available = apps[p].is_available
                    /\ apps[q].is_free = apps[p].is_free
                    /\ apps[q].is_demo_of = apps[p].is_demo_of

\* two packages of one identity, both updated from its fetched record
C18_Witness ==
    /\ spc = "done"
    /\ \E i \in DOMAIN groups :
        /\ Len(groups[i]) = 2
        /\ task[i].pc = "done"
        /\ Get(task[i].result).data.app_name = "n2"
        /\ \A p \in Range(groups[i]) : apps[p].app_name = "n2" /\ apps[p].is_free

(***************************************************************************)
(* helpers.math.percentile (utils.math_utils.percentile is the same code). *)
(* Values are whole numbers and results are kept in hundredths, which is   *)
(* exact for a whole percentage.                                           *)
(***************************************************************************)
MaxValues == 5
MaxValue == 5

Percents == {0, 1, 25, 33, 50, 75, 99, 100}

PercentileInit ==
    /\ apps = <<>>
    /\ CatalogIdle
    /\ RateIdle
    /\ StableIdle
    /\ ListIdle
    /\ LoadIdle
    /\ UpdateIdle
    /\ ScrapeIdle
    /\ TrackIdle
    /\ MergeIdle
    /\ pvalues \in UNION {[1..k -> 1..MaxValue] : k \in 1..MaxValues}
    /\ pct \in Percents
    /\ presult = 0
    /\ ppc = "call"

Percentile ==
    /\ ppc = "call"
    /\ presult' = percentile(pvalues, pct)
    /\ ppc' = "done"
    /\ UNCHANGED <<apps, catalogVars, rateVars, stableVars, ulVars, loadVars, updVars, scrapeVars, trackVars, mergeVars,
                   pvalues, pct>>

PercentileNext == Percentile

SpecPercentile == PercentileInit /\ [][PercentileNext]_vars

\* The k-th smallest of the values, repetitions counted.
Smallest(k) ==
    CHOOSE x \in Range(pvalues) :
        /\ Cardinality({i \in DOMAIN pvalues : pvalues[i] < x}) < k
        /\ Cardinality({i \in DOMAIN pvalues : pvalues[i] <= x}) >= k

MaxSections == 2    \* store-section requests of get_store_apps

\* ValidatedList.append with UniqueList._validate_value
append(l, v) ==
    IF v = None \/ v \in Range(l) THEN l ELSE Append(l, v)

\* ValidatedList.extend: every value is validated against the list as it
\* was before the call
extend(l, other) ==
    l \o SelectSeq(other, LAMBDA v : v # None /\ v \notin Range(l))

\* RootListModel.extend with ignore_dupes: the new elements, then the
\* whole list again
root_extend(root, new_list) ==
    (root \o SelectSeq(new_list, LAMBDA i : i \notin Range(root))) \o new_list

RECURSIVE merge_rest(_, _)
merge_rest(merged_section, rest) ==
    IF rest = <<>> THEN merged_section
    ELSE merge_rest(root_extend(merged_section, Head(rest)), Tail(rest))

\* Wrapper._merge_sections: Some(merged section), or None where
\* remove_null[0] raises IndexError
merge_sections(sections) ==
    LET truthy == SelectSeq(sections, LAMBDA x : ~IsNone(x) /\ Len(Get(x)) > 0)
        remove_null == [k \in DOMAIN truthy |-> Get(truthy[k])]
    IN  IF remove_null = <<>> THEN NoneList
        ELSE Some(merge_rest(remove_null[1], Tail(remove_null)))

\* Updater._get_parsed_ids
get_parsed_ids(parsed) ==
    LET with_id == SelectSeq(parsed, LAMBDA i : i.id # None /\ i.id # "")
    IN  [k \in DOMAIN with_id |-> with_id[k].id]

\* list.index
index(l, v) == CHOOSE k \in DOMAIN l : l[k] = v /\ \A j \in 1..(k - 1) : l[j] # v

\* AppManager.get_app_by_id: the package of the first app with the id, or None
get_app_by_id(a, order, app_id) ==
    LET found == SelectSeq(order, LAMBDA p : a[p].id = app_id)
    IN  IF found = <<>> THEN None ELSE found[1]

\* Updater._get_version_packages: pkgs[k] is what get_version_package
\* returns for the k-th version
RECURSIVE get_version_packages(_)
get_version_packages(pkgs) ==
    IF pkgs = <<>> THEN <<>>
    ELSE append(get_version_packages(SubSeq(pkgs, 1, Len(pkgs) - 1)), pkgs[Len(pkgs)])

\* a coroutine of Updater._parse_result not yet run
ParseTask(app_id, app_name, known_package) ==
    [id |-> app_id, name |-> app_name, known_package |-> known_package,
     result |-> NoneList]

\* Updater._parse_result: the catalog after the call and the item returned.
\* log, versions and pkgs are what get_app_changelog, get_app_versions and
\* get_version_package return
parse_result(a, order, t, log, versions, pkgs) ==
    LET parsed == [id |-> t.id, name |-> t.name, packages |-> <<>>,
                   versions |-> NoneList, cl_version |-> 0]
        app == get_app_by_id(a, order, t.id)
        has_log == app # None /\ ~IsNone(log) /\ Len(Get(log)) > 0
        updated == has_log /\ add_changelog_updated(a, app, Get(log))
        a1 == IF has_log THEN add_changelog(a, app, Get(log)) ELSE a
        p1 == IF has_log
              THEN [parsed EXCEPT !.cl_version = get_latest_version(Get(log))]
              ELSE parsed
    IN  IF app # None /\ ~updated
        THEN [apps |-> a1,
              parsed |-> [p1 EXCEPT !.packages = extend(<<>>, <<t.known_package, app>>)]]
        ELSE IF IsNone(versions)
        THEN [apps |-> a1, parsed |-> p1]
        ELSE [apps |-> a1,
              parsed |-> [p1 EXCEPT
                  !.versions = versions,
                  !.packages = append(get_version_packages(pkgs), t.known_package)]]

\* Updater._update_package_mappings, the loop over the mappings: the parsed
\* apps and the coroutines collected, raised where x.index raises ValueError
RECURSIVE package_mappings_loop(_, _, _)
package_mappings_loop(parsed, mappings, tasks) ==
    IF mappings = <<>> THEN [raised |-> FALSE, parsed |-> parsed, tasks |-> tasks]
    ELSE LET i == Head(mappings)
             x == get_parsed_ids(parsed)
         IN  IF x # <<>> /\ i.store_id \notin Range(x)
             THEN package_mappings_loop(parsed, Tail(mappings),
                      Append(tasks, ParseTask(i.store_id, i.name, i.package)))
             ELSE IF i.store_id \notin Range(x)
             THEN [raised |-> TRUE, parsed |-> parsed, tasks |-> tasks]
             ELSE package_mappings_loop(
                      [parsed EXCEPT ![index(x, i.store_id)].packages = append(@, i.package)],
                      Tail(mappings), tasks)

\* Updater._update_local_app_database
RECURSIVE update_local_app_database(_, _)
update_local_app_database(a, parsed) ==
    IF parsed = <<>> THEN a
    ELSE update_local_app_database(add(a, Head(parsed)), Tail(parsed))

\* Updater._populate_missing_changelogs: logs[p] is what get_app_changelog
\* returns for the app of package p
populate_missing_changelogs(a, logs) ==
    [p \in DOMAIN a |->
        IF /\ IsNone(a[p].change_log)
           /\ a[p].id # None
           /\ ~IsNone(logs[p]) /\ Len(Get(logs[p])) > 0
        THEN add_changelog(a, p, Get(logs[p]))[p]
        ELSE a[p]]

\* Updater._parse_rookie_updates
RECURSIVE parse_rookie_updates(_, _)
parse_rookie_updates(a, releases) ==
    IF releases = <<>> THEN a
    ELSE parse_rookie_updates(
             add_rookie_releases(a, Head(releases).package, Head(releases).versions),
             Tail(releases))

(***************************************************************************)
(* What the sources return in a run.                                       *)
(***************************************************************************)
OculusDbApps ==
    {<<>>} \cup {<<[id |-> i, package_name |-> "p1"]>> : i \in Ids}

StoreSection == {NoneList, Some(<<"i1">>), Some(<<"i2">>)}

AppLabApps == {<<>>, <<"i2">>}

PackageMapping == [store_id : Ids, name : {"n1"}, package : {"p2"}]

PackageMappings ==
    {NoneList, Some(<<>>)}
        \cup {Some(<<m>>) : m \in PackageMapping}
        \cup {Some(<<m, n>>) : <<m, n>> \in
                {mn \in PackageMapping \X PackageMapping : mn[1].store_id = "i1"}}

Releases == {<<[package |-> "p2", versions |-> <<"r1">>]>>}

Sources ==
    [oculusdb : OculusDbApps, sections : [1..MaxSections -> StoreSection],
     applab : AppLabApps, mappings : PackageMappings, releases : Releases]

\* what the requests of one _parse_result task return
TaskLogs == {NoneList, Some(<<[code |-> MaxVer, change_log |-> "t"]>>)}

TaskOutcomes ==
    [log : TaskLogs, versions : {NoneList}, pkgs : {<<>>}]
        \cup [log : TaskLogs,
              versions : {Some(<<[created_date |-> MaxDate, code |-> MaxVer]>>)},
              pkgs : {<<None>>, <<"p1">>}]

\* the catalogs update_local_apps starts from
UpdateCatalogs ==
    {a \in LoadedCatalogs :
        \A p \in DOMAIN a : p = "p1" /\ a[p].id = "i1" /\ a[p].max_version_date = 0}

UpdateInit ==
    /\ apps \in UpdateCatalogs
    /\ CatalogIdle
    /\ RateIdle
    /\ StableIdle
    /\ ListIdle
    /\ LoadIdle
    /\ PctIdle
    /\ ScrapeIdle
    /\ TrackIdle
    /\ MergeIdle
    /\ upc = "oculusdb"
    /\ sources \in Sources
    /\ parsed_apps = <<>>
    /\ pending = <<>>

Gathers == {"oculusdb_gather", "store_gather", "applab_gather", "mappings_gather"}

\* the step that follows a gather
AfterGather ==
    [g \in Gathers |->
        CASE g = "oculusdb_gather" -> "store"
          [] g = "store_gather" -> "applab"
          [] g = "applab_gather" -> "mappings"
          [] g = "mappings_gather" -> "database"]

\* _update_oculusdb_apps up to the gather
UpdateOculusdbApps ==
    /\ upc = "oculusdb"
    /\ pending' = [k \in DOMAIN sources.oculusdb |->
            ParseTask(sources.oculusdb[k].id, "n1", sources.oculusdb[k].package_name)]
    /\ upc' = "oculusdb_gather"
    /\ UNCHANGED <<apps, catalogVars, rateVars, stableVars, ulVars, loadVars, pctVars, scrapeVars, trackVars, mergeVars,
                   sources, parsed_apps>>

\* _update_store_apps up to the gather; get_store_apps raises when no
\* section has entries
UpdateStoreApps ==
    /\ upc = "store"
    /\ LET oculus == merge_sections(sources.sections)
       IN  IF IsNone(oculus)
           THEN /\ upc' = "crashed"
                /\ pending' = pending
           ELSE /\ upc' = "store_gather"
                /\ pending' =
                    LET new == SelectSeq(Get(oculus),
                            LAMBDA i : i \notin Range(get_parsed_ids(parsed_apps)))
                    IN  [k \in DOMAIN new |-> ParseTask(new[k], "n1", None)]
    /\ UNCHANGED <<apps, catalogVars, rateVars, stableVars, ulVars, loadVars, pctVars, scrapeVars, trackVars, mergeVars,
                   sources, parsed_apps>>

\* _update_applab_apps handing every App Lab entry to _parse_result
UpdateApplabAppsAll ==
    /\ upc = "applab"
    /\ pending' = [k \in DOMAIN sources.applab |-> ParseTask(sources.applab[k], "n1", None)]
    /\ upc' = "applab_gather"
    /\ UNCHANGED <<apps, catalogVars, rateVars, stableVars, ulVars, loadVars, pctVars, scrapeVars, trackVars, mergeVars,
                   sources, parsed_apps>>

\* _update_applab_apps up to the gather
UpdateApplabApps ==
    /\ upc = "applab"
    /\ pending' =
        LET new == SelectSeq(sources.applab,
                LAMBDA i : i \notin Range(get_parsed_ids(parsed_apps)))
        IN  [k \in DOMAIN new |-> ParseTask(new[k], "n1", None)]
    /\ upc' = "applab_gather"
    /\ UNCHANGED <<apps, catalogVars, rateVars, stableVars, ulVars, loadVars, pctVars, scrapeVars, trackVars, mergeVars,
                   sources, parsed_apps>>

\* _update_package_mappings up to the gather
UpdatePackageMappings ==
    /\ upc = "mappings"
    /\ IF IsNone(sources.mappings) \/ Get(sources.mappings) = <<>>
       THEN /\ upc' = "database"
            /\ UNCHANGED <<parsed_apps, pending>>
       ELSE LET loop == package_mappings_loop(parsed_apps, Get(sources.mappings), <<>>)
            IN  /\ parsed_apps' = loop.parsed
                /\ pending' = loop.tasks
                /\ upc' = IF loop.raised THEN "crashed" ELSE "mappings_gather"
    /\ UNCHANGED <<apps, catalogVars, rateVars, stableVars, ulVars, loadVars, pctVars, scrapeVars, trackVars, mergeVars, sources>>

\* one _parse_result task of the gather under way
ParseResult(k, o) ==
    /\ upc \in Gathers
    /\ IsNone(pending[k].result)
    /\ \E order \in Orders(DOMAIN apps) :
        LET r == parse_result(apps, order, pending[k], o.log, o.versions, o.pkgs)
        IN  /\ apps' = r.apps
            /\ pending' = [pending EXCEPT ![k].result = Some(r.parsed)]
    /\ UNCHANGED <<catalogVars, rateVars, stableVars, ulVars, loadVars, pctVars, scrapeVars, trackVars, mergeVars,
                   upc, sources, parsed_apps>>

\* the gather returns: _update_parsed_apps
UpdateParsedApps ==
    /\ upc \in Gathers
    /\ \A k \in DOMAIN pending : ~IsNone(pending[k].result)
    /\ parsed_apps' = parsed_apps \o [k \in DOMAIN pending |-> Get(pending[k].result)]
    /\ pending' = <<>>
    /\ upc' = AfterGather[upc]
    /\ UNCHANGED <<apps, catalogVars, rateVars, stableVars, ulVars, loadVars, pctVars, scrapeVars, trackVars, mergeVars, sources>>

UpdateLocalAppDatabase ==
    /\ upc = "database"
    /\ apps' = update_local_app_database(apps, parsed_apps)
    /\ upc' = "changelogs"
    /\ UNCHANGED <<catalogVars, rateVars, stableVars, ulVars, loadVars, pctVars, scrapeVars, trackVars, mergeVars,
                   sources, parsed_apps, pending>>

PopulateMissingChangelogs ==
    /\ upc = "changelogs"
    /\ \E logs \in [DOMAIN apps -> TaskLogs] :
        apps' = populate_missing_changelogs(apps, logs)
    /\ upc' = "rookie"
    /\ UNCHANGED <<catalogVars, rateVars, stableVars, ulVars, loadVars, pctVars, scrapeVars, trackVars, mergeVars,
                   sources, parsed_apps, pending>>

ParseRookieUpdates ==
    /\ upc = "rookie"
    /\ apps' = parse_rookie_updates(apps, sources.releases)
    /\ upc' = "missing"
    /\ UNCHANGED <<catalogVars, rateVars, stableVars, ulVars, loadVars, pctVars, scrapeVars, trackVars, mergeVars,
                   sources, parsed_apps, pending>>

\* _identify_missing_apps: the searches report ids, the catalog is only read
IdentifyMissingApps ==
    /\ upc = "missing"
    /\ upc' = "save"
    /\ UNCHANGED <<apps, catalogVars, rateVars, stableVars, ulVars, loadVars, pctVars, scrapeVars, trackVars, mergeVars,
                   sources, parsed_apps, pending>>

\* update_local_apps: await self._app_manager.save()
UpdateSave ==
    /\ upc = "save"
    /\ disk' = Some(serialised(apps))
    /\ upc' = "saved"
    /\ UNCHANGED <<apps, catalogVars, rateVars, stableVars, ulVars, loadVars, pctVars, trackVars, mergeVars,
                   spc, groups, task, apps0, stats, docs,
                   sources, parsed_apps, pending>>

UpdateNext ==
    \/ UpdateOculusdbApps
    \/ UpdateStoreApps
    \/ UpdateApplabApps
    \/ UpdatePackageMappings
    \/ \E k \in DOMAIN pending, o \in TaskOutcomes : ParseResult(k, o)
    \/ UpdateParsedApps
    \/ UpdateLocalAppDatabase
    \/ PopulateMissingChangelogs
    \/ ParseRookieUpdates
    \/ IdentifyMissingApps
    \/ UpdateSave

SpecUpdate == UpdateInit /\ [][UpdateNext]_vars

(***************************************************************************)
(* Properties of update_local_apps.                                        *)
(***************************************************************************)

\* C16: nothing is fatal in phase 1: whatever the source adapters return
\* (no data from every store-section request, an empty candidate list,
\* package mappings while no id is parsed yet), update_local_apps does not
\* stop on an exception before the catalog save, and a run that has ended
\* has written the catalog.
C16_NothingFatalPhase1 ==
    /\ upc # "crashed"
    /\ upc = "saved" => disk = Some(serialised(apps))

\* the ids of the in-run parsed apps
ParsedIds == {parsed_apps[j].id : j \in DOMAIN parsed_apps}

\* the order in which update_local_apps applies the adapters
AdapterOrder ==
    {<<"oculusdb", "oculusdb_gather">>, <<"oculusdb_gather", "store">>,
     <<"store", "store_gather">>, <<"store_gather", "applab">>,
     <<"applab", "applab_gather">>, <<"applab_gather", "mappings">>,
     <<"mappings", "mappings_gather">>, <<"mappings", "database">>,
     <<"mappings_gather", "database">>}

\* the packages the mappings name for an id
MappedPackages(id) ==
    IF IsNone(sources.mappings) THEN {}
    ELSE {Get(sources.mappings)[k].package :
            k \in {j \in DOMAIN Get(sources.mappings) : Get(sources.mappings)[j].store_id = id}}

\* C17: adapter priority and skipping in phase 1: the adapters are applied
\* in the order OculusDB, store listing, App Lab list, package mappings; an
\* id that is already among the parsed ids when a later adapter is applied
\* is not handed to _parse_result by that adapter; for a package mapping
\* whose store id is already parsed, the mapping's package is added to the
\* parsed item of that id and nothing else of the parsed items changes.
C17_AdapterPriority ==
    /\ [](upc \in {"store_gather", "applab_gather", "mappings_gather"} =>
            \A k \in DOMAIN pending : pending[k].id \notin ParsedIds)
    /\ [][/\ (upc' # upc /\ upc \in Gathers \cup {"oculusdb", "store", "applab", "mappings"}
              /\ upc' # "crashed") => <<upc, upc'>> \in AdapterOrder
          /\ (upc = "mappings" /\ upc' # "crashed") =>
                /\ Len(parsed_apps') = Len(parsed_apps)
                /\ \A j \in DOMAIN parsed_apps :
                    /\ parsed_apps'[j] =
                        [parsed_apps[j] EXCEPT !.packages = parsed_apps'[j].packages]
                    /\ Range(parsed_apps'[j].packages) \subseteq
                        Range(parsed_apps[j].packages) \cup MappedPackages(parsed_apps[j].id)
                    /\ \A k \in DOMAIN parsed_apps[j].packages :
                        parsed_apps'[j].packages[k] = parsed_apps[j].packages[k]
                /\ \A i \in ParsedIds : \A q \in MappedPackages(i) :
                    \E j \in DOMAIN parsed_apps :
                        parsed_apps[j].id = i /\ q \in Range(parsed_apps'[j].packages)
         ]_vars

\* a run in which the store listing, the App Lab list and a package mapping
\* all name i2: it is parsed once, and the mapping's package is on its item
C17_Witness ==
    /\ upc = "mappings_gather"
    /\ sources.applab = <<"i2">>
    /\ \E k \in 1..MaxSections : sources.sections[k] = Some(<<"i2">>)
    /\ "p2" \in MappedPackages("i2")
    /\ pending = <<>>
    /\ Cardinality({j \in DOMAIN parsed_apps : parsed_apps[j].id = "i2"}) = 1
    /\ \E j \in DOMAIN parsed_apps :
        parsed_apps[j].id = "i2" /\ "p2" \in Range(parsed_apps[j].packages)

\* the store listing get_store_apps returned to _update_store_apps
StoreListing == Get(merge_sections(sources.sections))

\* C28: RootListModel.extend(new_list, ignore_dupes=True) adds each element
\* of new_list that the list lacks and none that it has, so in the store
\* listing merged from the sections every store entry named by a section
\* occurs exactly once, and each is handed to _parse_result at most once
C28_ExtendIgnoresDupes ==
    upc = "store_gather" =>
        /\ \A k \in 1..MaxSections :
            ~IsNone(sources.sections[k]) =>
                Range(Get(sources.sections[k])) \subseteq Range(StoreListing)
        /\ \A j, k \in DOMAIN StoreListing :
            j # k => StoreListing[j] # StoreListing[k]
        /\ \A j, k \in DOMAIN pending :
            j # k => pending[j].id # pending[k].id

(***************************************************************************)
(* Application.run (application.py): update_local_apps, then scrape_apps.  *)
(***************************************************************************)
\* the runs followed through both phases: a first run (no catalog on file),
\* the store listing names i1 and i2, at most one package mapping
RunSources ==
    {s \in Sources :
        /\ s.oculusdb = <<>>
        /\ s.applab = <<>>
        /\ s.sections[1] = Some(<<"i1">>)
        /\ s.sections[MaxSections] = Some(<<"i2">>)
        /\ s.mappings \in {NoneList, Some(<<[store_id |-> "i2", name |-> "n1", package |-> "p2"]>>)}}

RunInit ==
    /\ UpdateInit
    /\ apps = << >>
    /\ sources \in RunSources

RunNext ==
    \/ UpdateNext
    \/ upc = "saved" /\ ScrapeNext

SpecRun == RunInit /\ [][RunNext]_vars

\* C19: save ordering: in each phase the catalog save that ends the phase
\* happens only after every fan-out task of the phase has finished, and no
\* catalog update of the phase follows it: once update_local_apps has saved
\* no _parse_result task is open, once scrape_apps has saved every
\* _scrape_app task is over, and until the next phase starts the catalog on
\* disk is the catalog in memory.
C19_SaveOrdering ==
    /\ upc = "saved" => pending = <<>>
    /\ (upc = "saved" /\ spc = "idle") => disk = Some(serialised(apps))
    /\ spc \in {"saved", "stats", "done", "crashed"} =>
        /\ \A i \in DOMAIN task : TaskOver(i)
        /\ disk = Some(serialised(apps))

\* both phases have run, the second with two _scrape_app tasks
C19_Witness ==
    /\ upc = "saved"
    /\ spc = "done"
    /\ Cardinality(DOMAIN task) = 2
    /\ Scraped = DOMAIN task
    /\ disk = Some(serialised(apps))
    /\ apps # apps0

\* C20: catalog writes are sequential and owned by the orchestrator: the
\* catalog is not changed while a fan-out is under way, that is by a step
\* of a _scrape_app or _parse_result task between the start of a gather and
\* its return; the tasks only return results.
C20_CatalogOwnedByOrchestrator ==
    [][apps' # apps => (spc # "gather" /\ upc \notin Gathers)]_vars

(***************************************************************************)
(* AppManager._load_from_file (data/local/app_manager.py, and the          *)
(* AppManager of data/local/manager.py).                                   *)
(***************************************************************************)
\* the catalog documents a catalog file can hold
FileCatalogs == UNION {[ps -> LoadedApp] : ps \in SUBSET Packages}

\* the catalog file: missing, a catalog document, text that is not JSON,
\* JSON that is not a catalog, bytes that are not UTF-8 text
Files ==
    {[kind |-> k, doc |-> << >>] : k \in {"missing", "not_json", "not_a_catalog", "not_utf8"}}
        \cup [kind : {"document"}, doc : FileCatalogs]

\* what open/read/model_validate_json raise for a file, "" for none
LoadError(f) ==
    CASE f.kind = "missing" -> "FileNotFoundError"
      [] f.kind = "not_utf8" -> "UnicodeDecodeError"
      [] f.kind \in {"not_json", "not_a_catalog"} -> "ValidationError"
      [] OTHER -> ""

\* _load_from_file with its except clause: the catalog returned, or the
\* exception that leaves the method
load_from_file(f, caught) ==
    IF LoadError(f) = "" THEN [raised |-> "", apps |-> f.doc]
    ELSE IF LoadError(f) \in caught THEN [raised |-> "", apps |-> << >>]
    ELSE [raised |-> LoadError(f), apps |-> << >>]

LoadInit ==
    /\ apps = << >>
    /\ CatalogIdle
    /\ RateIdle
    /\ StableIdle
    /\ ListIdle
    /\ PctIdle
    /\ ScrapeIdle
    /\ TrackIdle
    /\ MergeIdle
    /\ UpdateIdle
    /\ file \in {Some(f) : f \in Files}
    /\ loader = "none"
    /\ lpc = "construct"

\* AppManager.__init__ of data/local/app_manager.py
AppManagerInit ==
    /\ lpc = "construct"
    /\ LET r == load_from_file(Get(file), {"FileNotFoundError", "ValidationError"})
       IN  /\ apps' = r.apps
           /\ lpc' = IF r.raised = "" THEN "loaded" ELSE "raised"
    /\ loader' = "app_manager"
    /\ UNCHANGED <<catalogVars, rateVars, stableVars, ulVars, pctVars, scrapeVars, trackVars, mergeVars, updVars, file>>

\* AppManager.__init__ of data/local/manager.py
ManagerInit ==
    /\ lpc = "construct"
    /\ LET r == load_from_file(Get(file), {"FileNotFoundError"})
       IN  /\ apps' = r.apps
           /\ lpc' = IF r.raised = "" THEN "loaded" ELSE "raised"
    /\ loader' = "manager"
    /\ UNCHANGED <<catalogVars, rateVars, stableVars, ulVars, pctVars, scrapeVars, trackVars, mergeVars, updVars, file>>

LoadNext ==
    \/ AppManagerInit
    \/ ManagerInit

SpecLoad == LoadInit /\ [][LoadNext]_vars

\* C26: catalog load failure is recovered: constructing the catalog store
\* when the file is missing, or present but not a valid catalog document,
\* does not raise and yields an empty catalog.
C26_LoadRecovered ==
    (lpc # "construct" /\ Get(file).kind # "document") =>
        /\ lpc = "loaded"
        /\ apps = << >>

(***************************************************************************)
(* LowerCaseUniqueList (base/lists.py): ValidatedList's operations with    *)
(* the validation of UniqueList and the lowering of LowerCaseUniqueList.   *)
(***************************************************************************)
MaxItems == 3       \* elements of a list
MaxBatch == 2       \* elements of an argument list

\* the values handed to a list: None, the empty string, names in either case
RawNames == {None, "", "a", "A", "b", "B"}

Batches == SeqsUpTo(RawNames, MaxBatch)

\* str.lower
lower(v) == CASE v = "A" -> "a" [] v = "B" -> "b" [] OTHER -> v

\* LowerCaseUniqueList._validate_value over UniqueList._validate_value:
\* None for a value that is refused
lc_validate_value(l, v) ==
    IF v = None \/ v = "" THEN None
    ELSE IF lower(v) \in Range(l) THEN None
    ELSE lower(v)

\* ValidatedList._validate_values: every value is validated against the
\* list as it is during the comprehension
lc_validate_values(l, batch) ==
    LET validated == [k \in DOMAIN batch |-> lc_validate_value(l, batch[k])]
    IN  SelectSeq(validated, LAMBDA y : y # None)

\* ValidatedList.__init__: the values are validated against the empty data
lc_init(initlist) == lc_validate_values(<<>>, initlist)

\* ValidatedList.append
lc_append(l, v) ==
    IF lc_validate_value(l, v) # None THEN Append(l, lc_validate_value(l, v)) ELSE l

\* ValidatedList.insert (list.insert with an index in 0..len)
lc_insert(l, i, v) ==
    IF lc_validate_value(l, v) # None
    THEN SubSeq(l, 1, i) \o <<lc_validate_value(l, v)>> \o SubSeq(l, i + 1, Len(l))
    ELSE l

\* ValidatedList.extend
lc_extend(l, batch) == l \o lc_validate_values(l, batch)

\* ValidatedList.__add__: UserList.__add__ constructs a new list from the
\* data and the validated values
lc_add(l, batch) == lc_init(l \o lc_validate_values(l, batch))

\* ValidatedList.__iadd__
lc_iadd(l, batch) == l \o lc_validate_values(l, lc_validate_values(l, batch))

\* ValidatedList.__setitem__ with an index
lc_setitem(l, i, v) ==
    IF v = None THEN l
    ELSE IF lc_validate_value(l, v) # None
    THEN [l EXCEPT ![i] = lc_validate_value(l, v)]
    ELSE l

ListInit ==
    /\ apps = << >>
    /\ CatalogIdle
    /\ RateIdle
    /\ StableIdle
    /\ PctIdle
    /\ ScrapeIdle
    /\ TrackIdle
    /\ MergeIdle
    /\ UpdateIdle
    /\ LoadIdle
    /\ \E batch \in Batches :
        /\ ulist = lc_init(batch)
        /\ lcall = [op |-> "init", arg |-> batch]

ListAppend(v) ==
    /\ Len(ulist) < MaxItems
    /\ ulist' = lc_append(ulist, v)
    /\ lcall' = [op |-> "append", arg |-> <<v>>]
    /\ UNCHANGED <<apps, catalogVars, rateVars, stableVars, pctVars, scrapeVars, trackVars, mergeVars, updVars, loadVars>>

ListInsert(i, v) ==
    /\ Len(ulist) < MaxItems
    /\ ulist' = lc_insert(ulist, i, v)
    /\ lcall' = [op |-> "insert", arg |-> <<v>>]
    /\ UNCHANGED <<apps, catalogVars, rateVars, stableVars, pctVars, scrapeVars, trackVars, mergeVars, updVars, loadVars>>

ListExtend(batch) ==
    /\ Len(ulist) + Len(batch) <= MaxItems
    /\ ulist' = lc_extend(ulist, batch)
    /\ lcall' = [op |-> "extend", arg |-> batch]
    /\ UNCHANGED <<apps, catalogVars, rateVars, stableVars, pctVars, scrapeVars, trackVars, mergeVars, updVars, loadVars>>

ListAdd(batch) ==
    /\ Len(ulist) + Len(batch) <= MaxItems
    /\ ulist' = lc_add(ulist, batch)
    /\ lcall' = [op |-> "add", arg |-> batch]
    /\ UNCHANGED <<apps, catalogVars, rateVars, stableVars, pctVars, scrapeVars, trackVars, mergeVars, updVars, loadVars>>

ListIAdd(batch) ==
    /\ Len(ulist) + Len(batch) <= MaxItems
    /\ ulist' = lc_iadd(ulist, batch)
    /\ lcall' = [op |-> "iadd", arg |-> batch]
    /\ UNCHANGED <<apps, catalogVars, rateVars, stableVars, pctVars, scrapeVars, trackVars, mergeVars, updVars, loadVars>>

ListSetItem(i, v) ==
    /\ i \in DOMAIN ulist
    /\ ulist' = lc_setitem(ulist, i, v)
    /\ lcall' = [op |-> "setitem", arg |-> <<v>>]
    /\ UNCHANGED <<apps, catalogVars, rateVars, stableVars, pctVars, scrapeVars, trackVars, mergeVars, updVars, loadVars>>

ListNext ==
    \/ \E v \in RawNames : ListAppend(v)
    \/ \E i \in 0..Len(ulist), v \in RawNames : ListInsert(i, v)
    \/ \E batch \in Batches : ListExtend(batch)
    \/ \E batch \in Batches : ListAdd(batch)
    \/ \E batch \in Batches : ListIAdd(batch)
    \/ \E i \in 1..MaxItems, v \in RawNames : ListSetItem(i, v)

SpecList == ListInit /\ [][ListNext]_vars

\* C27: after construction from an initial list and any sequence of append,
\* insert, extend, +, += and item assignment, every element of a
\* LowerCaseUniqueList is a non-empty lower-case string and no two elements
\* are equal, also when one batch names the same package twice or in
\* different letter case.
C27_LowerCaseUnique ==
    /\ \A k \in DOMAIN ulist : ulist[k] \in {"a", "b"}
    /\ \A j, k \in DOMAIN ulist : j # k => ulist[j] # ulist[k]


(***************************************************************************)
(* Two consecutive runs of update_local_apps (controller/updater.py) over  *)
(* the same upstream data.  Each run is one process: the second starts     *)
(* from the catalog file the first one saved and with no parsed apps.      *)
(***************************************************************************)
\* what the services answer for one id: its changelog, its versions and the
\* package of each version
StableOutcomes ==
    [log : TaskLogs, versions : {NoneList}, pkgs : {<<>>}]
        \cup {[log |-> l, versions |-> Some(<<v>>), pkgs |-> <<p>>] :
                l \in TaskLogs, v \in Version, p \in {None, "p1"}}

\* the listings of both runs: one store section answers, no package mappings
StableSources ==
    {s \in Sources :
        /\ s.sections[1] # NoneList
        /\ s.sections[MaxSections] = NoneList
        /\ s.mappings = NoneList}

StableInit ==
    /\ apps = << >>
    /\ CatalogIdle
    /\ RateIdle
    /\ ListIdle
    /\ LoadIdle
    /\ PctIdle
    /\ ScrapeIdle
    /\ TrackIdle
    /\ MergeIdle
    /\ upc = "oculusdb"
    /\ sources \in StableSources
    /\ parsed_apps = <<>>
    /\ pending = <<>>
    /\ upstream \in [Ids -> StableOutcomes]
    /\ run = 1
    /\ first = <<>>

\* one _parse_result task of the gather under way, the services answering
\* for its id what they answer in both runs
StableParseResult(k) ==
    /\ run > 0
    /\ ParseResult(k, upstream[pending[k].id])

\* _populate_missing_changelogs, get_app_changelog answering for the app's id
StablePopulateMissingChangelogs ==
    /\ run > 0
    /\ upc = "changelogs"
    /\ apps' = populate_missing_changelogs(apps,
            [p \in DOMAIN apps |->
                IF apps[p].id = None THEN NoneList ELSE upstream[apps[p].id].log])
    /\ upc' = "rookie"
    /\ UNCHANGED <<catalogVars, rateVars, stableVars, ulVars, loadVars, pctVars, scrapeVars, trackVars, mergeVars,
                   sources, parsed_apps, pending>>

\* the next run: AppManager loads the saved catalog, the Updater is new
NextRun ==
    /\ run = 1
    /\ upc = "saved"
    /\ run' = 2
    /\ first' = [p \in DOMAIN apps |-> apps[p].id]
    /\ apps' = load_from_file([kind |-> "document", doc |-> Get(disk)],
                              {"FileNotFoundError", "ValidationError"}).apps
    /\ upc' = "oculusdb"
    /\ parsed_apps' = <<>>
    /\ pending' = <<>>
    /\ UNCHANGED <<catalogVars, rateVars, ulVars, loadVars, pctVars, scrapeVars, trackVars, mergeVars,
                   sources, upstream>>

StableNext ==
    \/ UpdateOculusdbApps
    \/ UpdateStoreApps
    \/ UpdateApplabApps
    \/ UpdatePackageMappings
    \/ \E k \in DOMAIN pending : StableParseResult(k)
    \/ UpdateParsedApps
    \/ UpdateLocalAppDatabase
    \/ StablePopulateMissingChangelogs
    \/ ParseRookieUpdates
    \/ IdentifyMissingApps
    \/ UpdateSave
    \/ NextRun

SpecStable == StableInit /\ [][StableNext]_vars

\* C29: phase 1 is stable across runs: when two consecutive runs of
\* update_local_apps observe the same upstream data, every package's
\* primary id after the second run is its primary id after the first run
C29_StableAcrossRuns ==
    (run = 2 /\ upc = "saved") => \A p \in DOMAIN first : apps[p].id = first[p]


(***************************************************************************)
(* The requests of Wrapper (data/web/wrapper.py) through the shared        *)
(* HttpClient (data/web/http_client.py).  Time is the event loop's clock   *)
(* in ticks; a call is a coroutine of _request, _download_resource or      *)
(* get_oculusdb_apps.  A coroutine that slept resumes at its wake time or  *)
(* later.  HttpClient.get and post hand the request to the session at      *)
(* once: the session limits open connections, not the request rate.        *)
(***************************************************************************)
Interval == 2       \* ticks in 1 / RATE_LIMIT seconds
MaxClock == 4       \* the clock ranges over 0..MaxClock
MaxCalls == 3       \* coroutines that reach the client

Call(pc, kind, wake, at) == [pc |-> pc, kind |-> kind, wake |-> wake, at |-> at]

RateInit ==
    /\ apps = << >>
    /\ CatalogIdle
    /\ StableIdle
    /\ ListIdle
    /\ LoadIdle
    /\ PctIdle
    /\ ScrapeIdle
    /\ TrackIdle
    /\ MergeIdle
    /\ UpdateIdle
    /\ clock = 0
    /\ calls = <<>>

\* time passes
Tick ==
    /\ clock < MaxClock
    /\ clock' = clock + 1
    /\ UNCHANGED <<apps, catalogVars, stableVars, ulVars, loadVars, pctVars, scrapeVars, trackVars, mergeVars,
                   updVars, calls>>

\* _request up to its first await: asyncio.sleep(1 / RATE_LIMIT)
Request ==
    /\ Len(calls) < MaxCalls
    /\ calls' = Append(calls, Call("sleeping", "request", clock + Interval, NoneList))
    /\ UNCHANGED <<apps, catalogVars, stableVars, ulVars, loadVars, pctVars, scrapeVars, trackVars, mergeVars,
                   updVars, clock>>

\* _download_resource up to its sleep, or its return when the file exists
DownloadResource(exists) ==
    /\ Len(calls) < MaxCalls
    /\ calls' = Append(calls,
            IF exists THEN Call("returned", "download", 0, NoneList)
            ELSE Call("sleeping", "download", clock + Interval, NoneList))
    /\ UNCHANGED <<apps, catalogVars, stableVars, ulVars, loadVars, pctVars, scrapeVars, trackVars, mergeVars,
                   updVars, clock>>

\* get_oculusdb_apps, the first request of a run: self._client.get(OCULUSDB)
\* with no sleep before it
GetOculusdbApps ==
    /\ calls = <<>>
    /\ calls' = Append(calls, Call("issued", "oculusdb", 0, Some(clock)))
    /\ UNCHANGED <<apps, catalogVars, stableVars, ulVars, loadVars, pctVars, scrapeVars, trackVars, mergeVars,
                   updVars, clock>>

\* the sleep of call k is over: self._client.post or self._client.get
Issue(k) ==
    /\ calls[k].pc = "sleeping"
    /\ clock >= calls[k].wake
    /\ calls' = [calls EXCEPT ![k].pc = "issued", ![k].at = Some(clock)]
    /\ UNCHANGED <<apps, catalogVars, stableVars, ulVars, loadVars, pctVars, scrapeVars, trackVars, mergeVars,
                   updVars, clock>>

\* the response of call k arrives, or its request times out
Respond(k) ==
    /\ calls[k].pc = "issued"
    /\ calls' = [calls EXCEPT ![k].pc = "returned"]
    /\ UNCHANGED <<apps, catalogVars, stableVars, ulVars, loadVars, pctVars, scrapeVars, trackVars, mergeVars,
                   updVars, clock>>

RateNext ==
    \/ Tick
    \/ Request
    \/ \E exists \in BOOLEAN : DownloadResource(exists)
    \/ GetOculusdbApps
    \/ \E k \in DOMAIN calls : Issue(k)
    \/ \E k \in DOMAIN calls : Respond(k)

SpecRate == RateInit /\ [][RateNext]_vars

\* the calls whose HTTP request has been handed to the client
Issued == {k \in DOMAIN calls : ~IsNone(calls[k].at)}

\* C21: any two HTTP requests issued through the shared client are at
\* least the minimum inter-request interval (1 / RATE_LIMIT) apart, however
\* many coroutines request concurrently
C21_GlobalRateLimit ==
    \A j, k \in Issued :
        j # k => \/ Get(calls[j].at) - Get(calls[k].at) >= Interval
                 \/ Get(calls[k].at) - Get(calls[j].at) >= Interval

====
